---- MODULE Spec2Model ----
(***************************************************************************)
(* A model of the Things 3 AppleScript bridge: the output parser chain     *)
(* (applescript/parsers.py, things3/parsers.py), the value converter       *)
(* (applescript/converters.py), the command builder                        *)
(* (applescript/builders.py), the Things 3 command generators              *)
(* (things3/command_builders.py) and the read operations of the API        *)
(* (things3/things3_api.py, things3/orchestrator.py, applescript/core.py). *)
(*                                                                         *)
(* Text is modelled by TLA+ strings (sequences of characters); Python      *)
(* values by tagged records (PyNone, PyBool, PyInt, PyFloat, PyStr,        *)
(* PyDict, PyList).                                                        *)
(***************************************************************************)
EXTENDS Integers, Sequences, FiniteSets, TLC

VARIABLES
    raw_output,   \* parser chain: the text handed to ParserChain.parse
    chain,        \* parser chain: which chain parsed it ("default" / "things3")
    parse_input,  \* parser chain: how that text was composed
    outcome,      \* parser chain: what the parse call did, returned or raised
    py_value,     \* converter: the Python value last handed to convert()
    tell_app,     \* AppleScriptCommand._tell_app (NoApp when None)
    commands,     \* AppleScriptCommand._commands
    raw_script,   \* AppleScriptCommand._raw_script (NoRaw when None)
    built,        \* the outcome of the last build() call on the command
    built_before, \* the outcome of the build() call before the last one
    last_op,      \* the last builder / generator call made, with its input
    api_call,     \* API: the operation in progress and its argument
    engine,       \* API: what the execution engine did for that call
    api_result,   \* API: what the operation returned or raised
    processes,    \* API: the osascript processes the operation spawned, in order
    tasks,        \* server: the tool requests and how far the handler of each is
    running       \* server: the request whose handler the event loop runs, or 0

vars == <<raw_output, chain, parse_input, outcome, py_value, tell_app, commands, raw_script, built,
          built_before, last_op, api_call, engine, api_result, processes, tasks,
          running>>

parserVars  == <<raw_output, chain, parse_input, outcome, py_value>>
builderVars == <<tell_app, commands, raw_script, built, built_before, last_op>>
facadeVars  == <<api_call, engine, api_result, processes>>
serverVars  == <<tasks, running>>
apiVars     == <<api_call, engine, api_result, processes, tasks, running>>

-----------------------------------------------------------------------------
(* Python string primitives.                                               *)

Ch(s, i) == SubSeq(s, i, i)

IsSpace(c) == c \in {" ", "\t", "\n", "\r"}

RECURSIVE LStrip(_)
LStrip(s) == IF Len(s) > 0 /\ IsSpace(Ch(s, 1)) THEN LStrip(Tail(s)) ELSE s

RECURSIVE RStrip(_)
RStrip(s) ==
    IF Len(s) > 0 /\ IsSpace(Ch(s, Len(s)))
    THEN RStrip(SubSeq(s, 1, Len(s) - 1)) ELSE s

\* str.strip()
Strip(s) == RStrip(LStrip(s))

\* s[start:stop] with Python's clamping; stop < 0 counts from the end
PySlice(s, start, stop) ==
    LET n  == Len(s)
        hi == IF stop < 0 THEN (IF n + stop < 0 THEN 0 ELSE n + stop)
              ELSE (IF stop > n THEN n ELSE stop)
        lo == IF start > n THEN n ELSE start
    IN  IF lo >= hi THEN "" ELSE SubSeq(s, lo + 1, hi)

\* s[start:]
PyFrom(s, start) == PySlice(s, start, Len(s))

StartsWith(s, p) == Len(s) >= Len(p) /\ SubSeq(s, 1, Len(p)) = p

EndsWith(s, p) ==
    Len(s) >= Len(p) /\ SubSeq(s, Len(s) - Len(p) + 1, Len(s)) = p

\* the 0-based index of the first occurrence of sub in s, or -1 (str.find)
Find(s, sub) ==
    LET hits == {i \in 1..(Len(s) - Len(sub) + 1) :
                    SubSeq(s, i, i + Len(sub) - 1) = sub}
    IN  IF hits = {} THEN -1
        ELSE (CHOOSE i \in hits : \A j \in hits : i <= j) - 1

\* sub in s
Contains(s, sub) == Find(s, sub) # -1

UpperLetters == "ABCDEFGHIJKLMNOPQRSTUVWXYZ"
LowerLetters == "abcdefghijklmnopqrstuvwxyz"
Digits       == "0123456789"

LowerCh(c) ==
    LET k == Find(UpperLetters, c)
    IN  IF Len(c) = 1 /\ k # -1 THEN Ch(LowerLetters, k + 1) ELSE c

UpperCh(c) ==
    LET k == Find(LowerLetters, c)
    IN  IF Len(c) = 1 /\ k # -1 THEN Ch(UpperLetters, k + 1) ELSE c

RECURSIVE Lower(_)
\* str.lower(), computed by halves to keep the evaluation shallow
Lower(s) ==
    IF Len(s) <= 1 THEN LowerCh(s)
    ELSE LET h == Len(s) \div 2
         IN  Lower(SubSeq(s, 1, h)) \o Lower(SubSeq(s, h + 1, Len(s)))

\* str.capitalize(): first character upper case, the rest lower case
Capitalize(s) == IF s = "" THEN "" ELSE UpperCh(Head(s)) \o Lower(Tail(s))

IsDigit(c) == Len(c) = 1 /\ Contains(Digits, c)

\* the regular expression class \w on the characters the model uses
IsWordCh(c) ==
    Len(c) = 1 /\ (Contains(Digits, c) \/ Contains(LowerLetters, c)
                     \/ Contains(UpperLetters, c) \/ c = "_")

AllDigits(s) == Len(s) > 0 /\ \A i \in 1..Len(s) : IsDigit(Ch(s, i))

RECURSIVE DigitsValue(_)
DigitsValue(s) ==
    IF s = "" THEN 0
    ELSE 10 * DigitsValue(SubSeq(s, 1, Len(s) - 1))
           + Find(Digits, Ch(s, Len(s)))

RECURSIVE NatStr(_)
\* str(n) for n >= 0
NatStr(n) ==
    IF n < 10 THEN Ch(Digits, n + 1)
    ELSE NatStr(n \div 10) \o Ch(Digits, (n % 10) + 1)

\* str(n)
IntStr(n) == IF n < 0 THEN "-" \o NatStr(0 - n) ELSE NatStr(n)

RECURSIVE JoinWith(_, _)
\* sep.join(items)
JoinWith(sep, items) ==
    IF Len(items) = 0 THEN ""
    ELSE IF Len(items) = 1 THEN items[1]
    ELSE items[1] \o sep \o JoinWith(sep, Tail(items))

RECURSIVE ReplaceAll(_, _, _)
\* s.replace(old, new), old non-empty
ReplaceAll(s, old, new) ==
    LET k == Find(s, old)
    IN  IF k = -1 THEN s
        ELSE SubSeq(s, 1, k) \o new
               \o ReplaceAll(PyFrom(s, k + Len(old)), old, new)

RECURSIVE SplitOn(_, _)
\* s.split(sep), sep non-empty
SplitOn(s, sep) ==
    LET k == Find(s, sep)
    IN  IF k = -1 THEN <<s>>
        ELSE <<SubSeq(s, 1, k)>> \o SplitOn(PyFrom(s, k + Len(sep)), sep)

-----------------------------------------------------------------------------
(* Python values.                                                          *)

PyNone       == [t |-> "none"]
PyBool(b)    == [t |-> "bool", b |-> b]
PyInt(n)     == [t |-> "int", n |-> n]
PyFloat(lit) == [t |-> "float", lit |-> lit]
PyStr(s)     == [t |-> "str", s |-> s]
PyList(xs)   == [t |-> "list", items |-> xs]
PyDict(ks, vs) == [t |-> "dict", keys |-> ks, vals |-> vs]
EmptyDict    == PyDict(<<>>, <<>>)

IsDict(v) == v.t = "dict"
IsList(v) == v.t = "list"

HasKey(d, k) == \E i \in 1..Len(d.keys) : d.keys[i] = k

\* d[k], for a key the dict has
DictGet(d, k) == d.vals[CHOOSE i \in 1..Len(d.keys) : d.keys[i] = k]

\* d[k] = v: a new key goes last, an old key keeps its place
DictSet(d, k, v) ==
    IF HasKey(d, k)
    THEN PyDict(d.keys,
                [i \in 1..Len(d.vals) |-> IF d.keys[i] = k THEN v ELSE d.vals[i]])
    ELSE PyDict(Append(d.keys, k), Append(d.vals, v))

-----------------------------------------------------------------------------
(* int() and float() on the characters the model uses: an optional sign,   *)
(* decimal digits, and for float one decimal point.                        *)

Unsigned(s) == IF Len(s) > 0 /\ Ch(s, 1) \in {"-", "+"} THEN Tail(s) ELSE s

IsIntLiteral(s) == AllDigits(Unsigned(s))

IntValue(s) ==
    IF Len(s) > 0 /\ Ch(s, 1) = "-" THEN 0 - DigitsValue(Unsigned(s))
    ELSE DigitsValue(Unsigned(s))

IsFloatLiteral(s) ==
    LET u == Unsigned(s)
        k == Find(u, ".")
        a == SubSeq(u, 1, k)
        b == PyFrom(u, k + 1)
    IN  /\ k # -1
        /\ a = "" \/ AllDigits(a)
        /\ b = "" \/ AllDigits(b)
        /\ a # "" \/ b # ""

\* the branch "if '.' in s: float(s) else: int(s)" under "except ValueError":
\* the number, or fallback when the conversion raises
ParseNumber(s, fallback) ==
    IF Contains(s, ".")
    THEN (IF IsFloatLiteral(s) THEN PyFloat(s) ELSE fallback)
    ELSE (IF IsIntLiteral(s) THEN PyInt(IntValue(s)) ELSE fallback)

-----------------------------------------------------------------------------
(* Things3RecordParser: object references.                                 *)

Things3Suffix == "\" of application \"Things3\""

ReferencePrefixes ==
    <<"project id \"", "area id \"", "to do id \"", "tag \"", "list \"">>

\* re.match(r'^<prefix>.*" of application "Things3"$', value_str)
MatchesReference(value_str, prefix) ==
    /\ StartsWith(value_str, prefix)
    /\ EndsWith(value_str, Things3Suffix)
    /\ Len(value_str) >= Len(prefix) + Len(Things3Suffix)
    /\ ~Contains(SubSeq(value_str, Len(prefix) + 1,
                        Len(value_str) - Len(Things3Suffix)), "\n")

IsThings3Reference(value_str) ==
    \E i \in 1..Len(ReferencePrefixes) :
        MatchesReference(value_str, ReferencePrefixes[i])

RECURSIVE WordPrefixLen(_)
\* the length of the longest prefix of s made of \w characters
WordPrefixLen(s) ==
    IF Len(s) > 0 /\ IsWordCh(Ch(s, 1)) THEN 1 + WordPrefixLen(Tail(s)) ELSE 0

RECURSIVE SpacePrefixLen(_)
SpacePrefixLen(s) ==
    IF Len(s) > 0 /\ IsSpace(Ch(s, 1)) THEN 1 + SpacePrefixLen(Tail(s)) ELSE 0

\* q is a text "<inner>" with no quote in inner: the group, or NoMatch
NoMatch == [ok |-> FALSE]
QuotedGroup(q) ==
    IF /\ Len(q) >= 3
       /\ Ch(q, 1) = "\""
       /\ Ch(q, Len(q)) = "\""
       /\ ~Contains(PySlice(q, 1, -1), "\"")
    THEN [ok |-> TRUE, id |-> PySlice(q, 1, -1)]
    ELSE NoMatch

\* rest matches \s+"([^"]+)"$ with sp the length of its leading spaces
QuotedTailAfter(rest, sp) ==
    IF sp >= 1 THEN QuotedGroup(PyFrom(rest, sp)) ELSE NoMatch

QuotedTail(rest) == QuotedTailAfter(rest, SpacePrefixLen(rest))

\* the optional group (?:\s+id)? taken: rest is the text after the spaces
WithIdGroup(rest, sp) ==
    IF sp >= 1 /\ StartsWith(rest, "id") THEN QuotedTail(PyFrom(rest, 2))
    ELSE NoMatch

\* of the two ways to match, the regular expression tries the one that
\* takes the optional group first
ReferenceGroups(type, withId, plain) ==
    IF withId.ok THEN [ok |-> TRUE, type |-> type, id |-> withId.id]
    ELSE IF plain.ok THEN [ok |-> TRUE, type |-> type, id |-> plain.id]
    ELSE NoMatch

ReferenceMatchAfter(type, after, sp) ==
    ReferenceGroups(type, WithIdGroup(PyFrom(after, sp), sp),
                    QuotedTail(after))

\* w is the length of the group (\w+)
ReferenceMatchWord(simplified, w) ==
    IF w = 0 THEN NoMatch
    ELSE ReferenceMatchAfter(SubSeq(simplified, 1, w), PyFrom(simplified, w),
                             SpacePrefixLen(PyFrom(simplified, w)))

\* re.match(r'^(\w+)(?:\s+id)?\s+"([^"]+)"$', simplified): groups 1 and 2
ReferenceMatch(simplified) ==
    ReferenceMatchWord(simplified, WordPrefixLen(simplified))

\* the lines of _parse_things3_reference after the match
ReferenceToken(value_str, simplified, m) ==
    IF m.ok
    THEN (IF Contains(value_str, " id ")
          THEN PyStr(m.type \o " id " \o m.id)
          ELSE PyStr(m.type \o " " \o m.id))
    ELSE PyStr(simplified)

ReferenceSimplified(value_str, simplified) ==
    ReferenceToken(value_str, simplified, ReferenceMatch(simplified))

ParseThings3Reference(value_str) ==
    ReferenceSimplified(value_str,
                        SplitOn(value_str, " of application ")[1])

-----------------------------------------------------------------------------
(* StructuredRecordParser. The parameter things3 selects the subclass      *)
(* Things3RecordParser, which overrides _parse_value.                      *)

\* _parse_value after "value_str = value_str.strip()"
BaseParseStripped(value_str) ==
    IF value_str = "missing value" THEN PyNone
    ELSE IF Lower(value_str) = "true" THEN PyBool(TRUE)
    ELSE IF Lower(value_str) = "false" THEN PyBool(FALSE)
    ELSE IF StartsWith(value_str, "\"") /\ EndsWith(value_str, "\"")
         THEN PyStr(PySlice(value_str, 1, -1))
    ELSE IF StartsWith(value_str, "date \"")
         THEN (IF EndsWith(value_str, "\"}")
               THEN PyStr(PySlice(value_str, 6, -2))
               ELSE IF EndsWith(value_str, "\"")
               THEN PyStr(PySlice(value_str, 6, -1))
               ELSE PyStr(PyFrom(value_str, 6)))
    ELSE ParseNumber(value_str, PyStr(value_str))

BaseParseValue(value_str0) == BaseParseStripped(Strip(value_str0))

\* Things3RecordParser._parse_value after the strip
ParseStripped(things3, value_str) ==
    IF things3 /\ IsThings3Reference(value_str)
    THEN ParseThings3Reference(value_str)
    ELSE BaseParseValue(value_str)

ParseValue(things3, value_str0) == ParseStripped(things3, Strip(value_str0))

\* A loop "for char in text" is a left fold of its body over the characters.
\* The folds below split the range lo..hi in halves, which visits the
\* characters in the loop's order; st1 is the state after the left half,
\* computed before the right half starts.

\* the body of the loop of _find_separator; st.pos is the value returned
\* (0-based), -1 while the loop is still running
FindSeparatorStep(st, i, char) ==
    IF st.pos # -1 THEN st
    ELSE IF st.escape_next THEN [st EXCEPT !.escape_next = FALSE]
    ELSE IF char = "\\" THEN [st EXCEPT !.escape_next = TRUE]
    ELSE IF char = "\"" THEN [st EXCEPT !.in_string = ~st.in_string]
    ELSE IF ~st.in_string /\ char = ":" THEN [st EXCEPT !.pos = i - 1]
    ELSE st

RECURSIVE FindSeparatorFold(_, _, _, _)
FindSeparatorFold(pair, lo, hi, st) ==
    IF lo > hi THEN st
    ELSE IF lo = hi THEN FindSeparatorStep(st, lo, Ch(pair, lo))
    ELSE LET mid == (lo + hi) \div 2
         IN  CHOOSE st2 \in {FindSeparatorFold(pair, mid + 1, hi, st1) :
                                st1 \in {FindSeparatorFold(pair, lo, mid, st)}} : TRUE

FindSeparator(pair) ==
    FindSeparatorFold(pair, 1, Len(pair),
                      [pos |-> -1, in_string |-> FALSE,
                       escape_next |-> FALSE]).pos

\* _split_pairs without the in_string flag: every comma at depth 0 ends a
\* pair
SplitPairsStepNoQuotes(st, char) ==
    IF char \in {"(", "{"}
    THEN [st EXCEPT !.depth = st.depth + 1,
                    !.current_pair = st.current_pair \o char]
    ELSE IF char \in {")", "}"}
    THEN [st EXCEPT !.depth = st.depth - 1,
                    !.current_pair = st.current_pair \o char]
    ELSE IF char = "," /\ st.depth = 0
    THEN [st EXCEPT !.pairs = Append(st.pairs, Strip(st.current_pair)),
                    !.current_pair = ""]
    ELSE [st EXCEPT !.current_pair = st.current_pair \o char]

\* the body of the loop of _split_pairs
SplitPairsStep(st, char) ==
    IF st.escape_next
    THEN [st EXCEPT !.escape_next = FALSE,
                    !.current_pair = st.current_pair \o char]
    ELSE IF char = "\\"
    THEN [st EXCEPT !.escape_next = TRUE,
                    !.current_pair = st.current_pair \o char]
    ELSE IF char = "\""
    THEN [st EXCEPT !.in_string = ~st.in_string,
                    !.current_pair = st.current_pair \o char]
    ELSE IF ~st.in_string /\ char \in {"(", "{"}
    THEN [st EXCEPT !.depth = st.depth + 1,
                    !.current_pair = st.current_pair \o char]
    ELSE IF ~st.in_string /\ char \in {")", "}"}
    THEN [st EXCEPT !.depth = st.depth - 1,
                    !.current_pair = st.current_pair \o char]
    ELSE IF ~st.in_string /\ char = "," /\ st.depth = 0
    THEN [st EXCEPT !.pairs = Append(st.pairs, Strip(st.current_pair)),
                    !.current_pair = ""]
    ELSE [st EXCEPT !.current_pair = st.current_pair \o char]

RECURSIVE SplitPairsFold(_, _, _, _)
SplitPairsFold(content, lo, hi, st) ==
    IF lo > hi THEN st
    ELSE IF lo = hi THEN SplitPairsStep(st, Ch(content, lo))
    ELSE LET mid == (lo + hi) \div 2
         IN  CHOOSE st2 \in {SplitPairsFold(content, mid + 1, hi, st1) :
                                st1 \in {SplitPairsFold(content, lo, mid, st)}} : TRUE

\* the lines of _split_pairs after the loop
SplitPairsEnd(st) ==
    IF Strip(st.current_pair) # ""
    THEN Append(st.pairs, Strip(st.current_pair)) ELSE st.pairs

SplitPairs(content) ==
    SplitPairsEnd(SplitPairsFold(content, 1, Len(content),
                                 [pairs |-> <<>>, current_pair |-> "",
                                  depth |-> 0, in_string |-> FALSE,
                                  escape_next |-> FALSE]))

\* _parse_pair after the separator is found: [key, value], or no key when the
\* pair has no separator
ParsePairAt(things3, pair, colon_pos) ==
    IF colon_pos = -1 THEN [haskey |-> FALSE]
    ELSE [haskey |-> TRUE,
          key    |-> Strip(SubSeq(pair, 1, colon_pos)),
          value  |-> ParseValue(things3, Strip(PyFrom(pair, colon_pos + 1)))]

ParsePair(things3, pair) == ParsePairAt(things3, pair, FindSeparator(pair))

\* "if key: result[key] = value"
AddPair(result, kv) ==
    IF kv.haskey /\ kv.key # "" THEN DictSet(result, kv.key, kv.value)
    ELSE result

RECURSIVE AddPairs(_, _, _, _)
AddPairs(things3, pairs, i, result) ==
    IF i > Len(pairs) THEN result
    ELSE AddPairs(things3, pairs, i + 1,
                  AddPair(result, ParsePair(things3, pairs[i])))

ParseSingleRecord(things3, record_str) ==
    LET content == PySlice(Strip(record_str), 1, -1)
    IN  AddPairs(things3, SplitPairs(content), 1, EmptyDict)

\* the body of the while loop of _parse_multiple_records. After the end of
\* a record the inner loop "while inner[i] in ', \t\n': i += 1" runs: the
\* state is skipping until the first other character, which is then
\* processed as usual
SplitRecordsStep(st, char) ==
    IF st.skipping /\ char \in {",", " ", "\t", "\n"} THEN st
    ELSE LET s0 == [st EXCEPT !.skipping = FALSE]
             s1 == [s0 EXCEPT !.current_record = st.current_record \o char]
         IN  IF st.escape_next THEN [s1 EXCEPT !.escape_next = FALSE]
             ELSE IF char = "\\" THEN [s1 EXCEPT !.escape_next = TRUE]
             ELSE IF char = "\"" THEN [s1 EXCEPT !.in_string = ~st.in_string]
             ELSE IF ~st.in_string /\ char = "{"
                  THEN [s1 EXCEPT !.depth = st.depth + 1]
             ELSE IF ~st.in_string /\ char = "}" /\ st.depth = 0
                  THEN [s0 EXCEPT !.records =
                                      Append(st.records, s1.current_record),
                                  !.current_record = "",
                                  !.skipping = TRUE]
             ELSE IF ~st.in_string /\ char = "}"
                  THEN [s1 EXCEPT !.depth = st.depth - 1]
             ELSE s1

RECURSIVE SplitRecordsFold(_, _, _, _)
SplitRecordsFold(inner, lo, hi, st) ==
    IF lo > hi THEN st
    ELSE IF lo = hi THEN SplitRecordsStep(st, Ch(inner, lo))
    ELSE LET mid == (lo + hi) \div 2
         IN  CHOOSE st2 \in {SplitRecordsFold(inner, mid + 1, hi, st1) :
                                st1 \in {SplitRecordsFold(inner, lo, mid, st)}} : TRUE

\* the record texts _parse_multiple_records cuts the content into
SplitRecordsEnd(st) ==
    IF Strip(st.current_record) # ""
    THEN Append(st.records, st.current_record) ELSE st.records

SplitRecordsInner(inner) ==
    SplitRecordsEnd(
        SplitRecordsFold(inner, 1, Len(inner),
                         [records |-> <<>>, current_record |-> "",
                          depth |-> 0, in_string |-> FALSE,
                          escape_next |-> FALSE, skipping |-> FALSE]))

SplitRecords(content) == SplitRecordsInner(PySlice(content, 2, -2))

\* the body of "for record in records"
ParseRecordText(things3, record) ==
    IF Strip(record) = "" THEN <<>>
    ELSE <<ParseSingleRecord(things3,
                             IF ~StartsWith(record, "{")
                             THEN "{" \o record \o "}" ELSE record)>>

RECURSIVE ParseEachRecord(_, _, _)
ParseEachRecord(things3, records, i) ==
    IF i > Len(records) THEN <<>>
    ELSE ParseRecordText(things3, records[i])
           \o ParseEachRecord(things3, records, i + 1)

ParseMultipleRecords(things3, content) ==
    PyList(ParseEachRecord(things3, SplitRecords(content), 1))

RecordCanParse(raw) ==
    LET stripped == Strip(raw)
    IN  /\ raw # ""
        /\ \/ StartsWith(stripped, "{{") /\ EndsWith(stripped, "}}")
           \/ /\ StartsWith(stripped, "{")
              /\ Contains(stripped, ":")
              /\ EndsWith(stripped, "}")

\* StructuredRecordParser.parse; none of the helpers it calls can raise on
\* the texts of the model, so the except branch is never taken
RecordParse(things3, raw) ==
    LET stripped == Strip(raw)
    IN  IF StartsWith(stripped, "{{") /\ EndsWith(stripped, "}}")
        THEN ParseMultipleRecords(things3, stripped)
        ELSE ParseSingleRecord(things3, stripped)

-----------------------------------------------------------------------------
(* JSONParser. json.loads is modelled by a recursive-descent decoder of    *)
(* objects, arrays, strings with backslash escapes, numbers and the three  *)
(* literals; a decoding step returns [ok, pos, val] with pos the 1-based   *)
(* position after what it consumed.                                        *)

JFail == [ok |-> FALSE]
JOk(pos, val) == [ok |-> TRUE, pos |-> pos, val |-> val]

RECURSIVE JSkipWs(_, _)
JSkipWs(s, i) ==
    IF i <= Len(s) /\ IsSpace(Ch(s, i)) THEN JSkipWs(s, i + 1) ELSE i

RECURSIVE JDigitsEnd(_, _)
\* the position after the run of digits that starts at i
JDigitsEnd(s, i) ==
    IF i <= Len(s) /\ IsDigit(Ch(s, i)) THEN JDigitsEnd(s, i + 1) ELSE i

JEscapes == [c \in {"\"", "\\", "/", "n", "t", "r"} |->
               CASE c = "n" -> "\n" [] c = "t" -> "\t" [] c = "r" -> "\r"
                 [] OTHER -> c]

RECURSIVE JStringFrom(_, _, _)
\* the body of a string whose opening quote is before position i
JStringFrom(s, i, acc) ==
    IF i > Len(s) THEN JFail
    ELSE LET c == Ch(s, i)
         IN  IF c = "\"" THEN JOk(i + 1, acc)
             ELSE IF c = "\\"
             THEN (IF i + 1 <= Len(s) /\ Ch(s, i + 1) \in DOMAIN JEscapes
                   THEN JStringFrom(s, i + 2, acc \o JEscapes[Ch(s, i + 1)])
                   ELSE JFail)
             ELSE IF c \in {"\n", "\t", "\r"} THEN JFail
             ELSE JStringFrom(s, i + 1, acc \o c)

\* a number literal from position i: j1 is the position after the integer
\* part, j3 the position after the whole literal
JNumberEnd(s, i, j1, j3) ==
    IF j3 = j1 THEN JOk(j3, PyInt(IntValue(SubSeq(s, i, j3 - 1))))
    ELSE JOk(j3, PyFloat(SubSeq(s, i, j3 - 1)))

\* e1 is the position of the exponent's digits, e2 the position after them
JNumberExpEnd(s, i, j1, j2, e1, e2) ==
    JNumberEnd(s, i, j1, IF e2 > e1 THEN e2 ELSE j2)

\* j2 is the position after the fraction
JNumberExp(s, i, j1, j2, e1) ==
    IF j2 <= Len(s) /\ Ch(s, j2) \in {"e", "E"}
    THEN JNumberExpEnd(s, i, j1, j2, e1, JDigitsEnd(s, e1))
    ELSE JNumberEnd(s, i, j1, j2)

JNumberExpSign(s, i, j1, j2) ==
    JNumberExp(s, i, j1, j2,
               IF j2 + 1 <= Len(s) /\ Ch(s, j2 + 1) \in {"-", "+"}
               THEN j2 + 2 ELSE j2 + 1)

\* f1 is the position after the digits that follow a decimal point at j1
JNumberFracEnd(s, i, j1, f1) ==
    JNumberExpSign(s, i, j1, IF f1 > j1 + 1 THEN f1 ELSE j1)

JNumberFrac(s, i, j0, j1) ==
    IF j1 = j0 THEN JFail
    ELSE JNumberFracEnd(s, i, j1,
                        IF j1 <= Len(s) /\ Ch(s, j1) = "."
                        THEN JDigitsEnd(s, j1 + 1) ELSE j1)

\* j0 is the position after the optional sign
JNumberInt(s, i, j0) ==
    JNumberFrac(s, i, j0,
                IF j0 <= Len(s) /\ Ch(s, j0) = "0" THEN j0 + 1
                ELSE JDigitsEnd(s, j0))

JNumber(s, i) ==
    JNumberInt(s, i, IF i <= Len(s) /\ Ch(s, i) = "-" THEN i + 1 ELSE i)

RECURSIVE JValue(_, _)
RECURSIVE JMembers(_, _, _)
RECURSIVE JElements(_, _, _)

\* after a member's value: position e is at "}" or ","
JMemberEnd(s, d, e) ==
    IF e > Len(s) THEN JFail
    ELSE IF Ch(s, e) = "}" THEN JOk(e + 1, d)
    ELSE IF Ch(s, e) = "," THEN JMembers(s, JSkipWs(s, e + 1), d)
    ELSE JFail

\* v is what decoding the member's value gave
JMemberValue(s, d, key, v) ==
    IF ~v.ok THEN JFail
    ELSE JMemberEnd(s, DictSet(d, key, v.val), JSkipWs(s, v.pos))

\* after a member's key: position c is at ":"
JMemberColon(s, d, key, c) ==
    IF c > Len(s) \/ Ch(s, c) # ":" THEN JFail
    ELSE JMemberValue(s, d, key, JValue(s, JSkipWs(s, c + 1)))

\* k is what decoding the member's key gave
JMemberKey(s, d, k) ==
    IF ~k.ok THEN JFail ELSE JMemberColon(s, d, k.val, JSkipWs(s, k.pos))

\* the members of an object after "{" or ",": position i is at a key
JMembers(s, i, d) ==
    IF i > Len(s) \/ Ch(s, i) # "\"" THEN JFail
    ELSE JMemberKey(s, d, JStringFrom(s, i + 1, ""))

\* after an element: position e is at "]" or ","
JElementEnd(s, xs, e) ==
    IF e > Len(s) THEN JFail
    ELSE IF Ch(s, e) = "]" THEN JOk(e + 1, PyList(xs))
    ELSE IF Ch(s, e) = "," THEN JElements(s, JSkipWs(s, e + 1), xs)
    ELSE JFail

\* v is what decoding the element gave
JElementValue(s, xs, v) ==
    IF ~v.ok THEN JFail
    ELSE JElementEnd(s, Append(xs, v.val), JSkipWs(s, v.pos))

\* the elements of an array after "[" or ","
JElements(s, i, xs) == JElementValue(s, xs, JValue(s, i))

JStringValue(r) == IF r.ok THEN JOk(r.pos, PyStr(r.val)) ELSE JFail

\* after "{": position j is at "}" or at the first key
JObject(s, j) ==
    IF j <= Len(s) /\ Ch(s, j) = "}" THEN JOk(j + 1, EmptyDict)
    ELSE JMembers(s, j, EmptyDict)

\* after "[": position j is at "]" or at the first element
JArray(s, j) ==
    IF j <= Len(s) /\ Ch(s, j) = "]" THEN JOk(j + 1, PyList(<<>>))
    ELSE JElements(s, j, <<>>)

JLiteral(s, i) ==
    IF StartsWith(PyFrom(s, i - 1), "true") THEN JOk(i + 4, PyBool(TRUE))
    ELSE IF StartsWith(PyFrom(s, i - 1), "false") THEN JOk(i + 5, PyBool(FALSE))
    ELSE IF StartsWith(PyFrom(s, i - 1), "null") THEN JOk(i + 4, PyNone)
    ELSE JNumber(s, i)

JValue(s, i) ==
    IF i > Len(s) THEN JFail
    ELSE IF Ch(s, i) = "\"" THEN JStringValue(JStringFrom(s, i + 1, ""))
    ELSE IF Ch(s, i) = "{" THEN JObject(s, JSkipWs(s, i + 1))
    ELSE IF Ch(s, i) = "[" THEN JArray(s, JSkipWs(s, i + 1))
    ELSE JLiteral(s, i)

JLoaded(raw, v) ==
    IF v.ok /\ JSkipWs(raw, v.pos) > Len(raw) THEN v ELSE JFail

\* json.loads(raw): the decoded value, or JFail for JSONDecodeError
JsonLoads(raw) == JLoaded(raw, JValue(raw, JSkipWs(raw, 1)))

JSONCanParse(raw) ==
    LET stripped == Strip(raw)
    IN  /\ raw # ""
        /\ \/ StartsWith(stripped, "{") /\ EndsWith(stripped, "}")
           \/ StartsWith(stripped, "[") /\ EndsWith(stripped, "]")
        /\ ~(/\ Contains(stripped, ":")
             /\ ~Contains(SplitOn(stripped, ":")[1], "\""))

-----------------------------------------------------------------------------
(* DateParser, ListParser, PrimitiveParser.                                *)

\* DATE_PATTERN = ^date "(.+)"$ matched against the stripped text
DateMatches(raw) ==
    LET s == Strip(raw)
    IN  /\ StartsWith(s, "date \"")
        /\ EndsWith(s, "\"")
        /\ Len(s) >= 8
        /\ ~Contains(PySlice(s, 6, -1), "\n")

DateCanParse(raw) == DateMatches(raw)

DateParse(raw) == PyStr(PySlice(Strip(raw), 6, -1))

ListCanParse(raw) ==
    LET stripped == Strip(raw)
    IN  /\ raw # ""
        /\ StartsWith(stripped, "{")
        /\ EndsWith(stripped, "}")
        /\ ~Contains(stripped, ":")
        /\ ~StartsWith(stripped, "{{")

\* the body of the loop of ListParser.parse
ListItemsStep(st, char) ==
    IF char = "\""
    THEN [st EXCEPT !.in_quotes = ~st.in_quotes,
                    !.current_item = st.current_item \o char]
    ELSE IF char = "," /\ ~st.in_quotes
    THEN [st EXCEPT !.items = Append(st.items, Strip(st.current_item)),
                    !.current_item = ""]
    ELSE [st EXCEPT !.current_item = st.current_item \o char]

RECURSIVE ListItemsFold(_, _, _, _)
ListItemsFold(content, lo, hi, st) ==
    IF lo > hi THEN st
    ELSE IF lo = hi THEN ListItemsStep(st, Ch(content, lo))
    ELSE LET mid == (lo + hi) \div 2
         IN  CHOOSE st2 \in {ListItemsFold(content, mid + 1, hi, st1) :
                                st1 \in {ListItemsFold(content, lo, mid, st)}} : TRUE

ListItemsEnd(st) ==
    IF st.current_item # "" THEN Append(st.items, Strip(st.current_item))
    ELSE st.items

ListItems(content) ==
    ListItemsEnd(ListItemsFold(content, 1, Len(content),
                               [items |-> <<>>, current_item |-> "",
                                in_quotes |-> FALSE]))

CleanItem(item) ==
    IF StartsWith(item, "\"") /\ EndsWith(item, "\"")
    THEN PyStr(PySlice(item, 1, -1)) ELSE PyStr(item)

CleanItems(items) == [i \in 1..Len(items) |-> CleanItem(items[i])]

\* ListParser.parse after "content = raw_output.strip()[1:-1]"
ListParseContent(content) ==
    IF content = "" THEN PyList(<<>>)
    ELSE PyList(CleanItems(ListItems(content)))

ListParse(raw) == ListParseContent(PySlice(Strip(raw), 1, -1))

PrimitiveCanParse(raw) == TRUE

\* a primitive parser that trims every text
PrimitiveParseTrimmed(raw) ==
    LET value == Strip(raw)
    IN  IF raw = "" THEN PyNone
        ELSE IF Lower(value) = "true" THEN PyBool(TRUE)
        ELSE IF Lower(value) = "false" THEN PyBool(FALSE)
        ELSE ParseNumber(value, PyStr(value))

PrimitiveParse(raw) ==
    LET value == Strip(raw)
    IN  IF raw = "" THEN PyNone
        ELSE IF value = "" THEN PyStr(raw)
        ELSE IF Lower(value) = "true" THEN PyBool(TRUE)
        ELSE IF Lower(value) = "false" THEN PyBool(FALSE)
        ELSE ParseNumber(value, PyStr(value))

-----------------------------------------------------------------------------
(* ParserChain.                                                            *)

DefaultParsers ==
    <<"JSONParser", "StructuredRecordParser", "DateParser", "ListParser",
      "PrimitiveParser">>

Things3Parsers ==
    <<"Things3RecordParser", "DateParser", "ListParser", "PrimitiveParser">>

ParsersOf(c) == IF c = "things3" THEN Things3Parsers ELSE DefaultParsers

CanParse(parser, raw) ==
    CASE parser = "JSONParser"             -> JSONCanParse(raw)
      [] parser = "StructuredRecordParser" -> RecordCanParse(raw)
      [] parser = "Things3RecordParser"    -> RecordCanParse(raw)
      [] parser = "DateParser"             -> DateCanParse(raw)
      [] parser = "ListParser"             -> ListCanParse(raw)
      [] parser = "PrimitiveParser"        -> PrimitiveCanParse(raw)

Returned(parser, value) == [kind |-> "value", parser |-> parser, value |-> value]

\* AppleScriptParsingError(raw_output, parser_type, original_error)
ParsingError(raw, parser_type, original_error) ==
    [kind |-> "AppleScriptParsingError", parser |-> parser_type,
     raw_output |-> raw, parser_type |-> parser_type,
     original_error |-> original_error]

\* parser.parse(raw_output): what it returns or raises
JSONParse(raw, loaded) ==
    IF loaded.ok THEN Returned("JSONParser", loaded.val)
    ELSE ParsingError(raw, "JSONParser", "JSONDecodeError")

RunParser(parser, raw) ==
    CASE parser = "JSONParser" -> JSONParse(raw, JsonLoads(raw))
      [] parser \in {"StructuredRecordParser", "Things3RecordParser"} ->
            Returned(parser, RecordParse(parser = "Things3RecordParser", raw))
      [] parser = "DateParser" ->
            (IF DateMatches(raw) THEN Returned(parser, DateParse(raw))
             ELSE ParsingError(raw, "DateParser", "None"))
      [] parser = "ListParser" -> Returned(parser, ListParse(raw))
      [] parser = "PrimitiveParser" -> Returned(parser, PrimitiveParse(raw))

\* One call of ParserChain.parse, with what it did on the way: consulted
\* lists the parsers whose can_parse was called, ran those whose parse was
\* called, result is what the call returned or raised.
ChainCall(consulted, ran, result) ==
    [consulted |-> consulted, ran |-> ran, result |-> result]

RECURSIVE ChainFrom(_, _, _, _)

\* a chain that goes on to the next parser when a parse fails
ChainFromFallThrough(parsers, i, raw, consulted) ==
    IF i > Len(parsers)
    THEN ChainCall(consulted, <<>>,
                   ParsingError(raw, "No suitable parser", "ValueError"))
    ELSE IF CanParse(parsers[i], raw)
            /\ RunParser(parsers[i], raw).kind = "value"
    THEN ChainCall(Append(consulted, parsers[i]), <<parsers[i]>>,
                   RunParser(parsers[i], raw))
    ELSE ChainFrom(parsers, i + 1, raw, Append(consulted, parsers[i]))

\* the for loop of ParserChain.parse from the i-th parser
ChainFrom(parsers, i, raw, consulted) ==
    IF i > Len(parsers)
    THEN ChainCall(consulted, <<>>,
                   ParsingError(raw, "No suitable parser", "ValueError"))
    ELSE IF CanParse(parsers[i], raw)
    THEN ChainCall(Append(consulted, parsers[i]), <<parsers[i]>>,
                   RunParser(parsers[i], raw))
    ELSE ChainFrom(parsers, i + 1, raw, Append(consulted, parsers[i]))

ChainRun(c, raw) ==
    IF raw = "" THEN ChainCall(<<>>, <<>>, Returned("none", PyNone))
    ELSE ChainFrom(ParsersOf(c), 1, raw, <<>>)

\* ParserChain.parse(raw_output) on the chain c
ChainParse(c, raw) == ChainRun(c, raw).result

-----------------------------------------------------------------------------
(* PythonToAppleScriptConverter.                                           *)

\* a date (or datetime), as the number of days from today to it
PyDate(days) == [t |-> "date", days |-> days]

IsAppleScriptExpression(s0) ==
    LET s == Strip(s0)
    IN  \/ s = "current date" \/ s = "(current date)"
        \/ /\ StartsWith(s, "(current date)")
           /\ Contains(s, "+") \/ Contains(s, "-")
           /\ Contains(s, "days")
        \/ \E prefix \in {"area id ", "project id ", "tag id ", "to do id ",
                          "area ", "project ", "tag ", "list "} :
              StartsWith(s, prefix)
        \/ s \in {"missing value", "true", "false"}

QuoteString(s) == "\"" \o ReplaceAll(s, "\"", "\\\"") \o "\""

\* _format_date, on days_diff = (target_date - today).days
FormatDate(days_diff) ==
    IF days_diff = 0 THEN "current date"
    ELSE IF days_diff = 1 THEN "(current date) + (1 * days)"
    ELSE IF days_diff = -1 THEN "(current date) - (1 * days)"
    ELSE IF days_diff > 0
    THEN "(current date) + (" \o IntStr(days_diff) \o " * days)"
    ELSE "(current date) - (" \o IntStr(0 - days_diff) \o " * days)"

\* AppleScriptOrchestrator._format_date_for_applescript of a date or
\* datetime, on days_diff = (target_date - today).days
FormatDateForApplescript(days_diff) ==
    IF days_diff = 0 THEN "current date"
    ELSE IF days_diff = 1 THEN "(current date) + (1 * days)"
    ELSE IF days_diff = -1 THEN "(current date) - (1 * days)"
    ELSE "(current date) + (" \o IntStr(days_diff) \o " * days)"

RECURSIVE Convert(_)
\* convert(value); _convert_list and _convert_dict are its list and dict
\* branches
Convert(value) ==
    CASE value.t = "none"  -> "missing value"
      [] value.t = "bool"  -> (IF value.b THEN "true" ELSE "false")
      [] value.t = "int"   -> IntStr(value.n)
      [] value.t = "float" -> value.lit
      [] value.t = "str"   ->
            (IF IsAppleScriptExpression(value.s) THEN value.s
             ELSE QuoteString(value.s))
      [] value.t = "date"  -> FormatDate(value.days)
      [] value.t = "list"  ->
            (IF Len(value.items) = 0 THEN "{}"
             ELSE "{" \o JoinWith(", ", [i \in 1..Len(value.items) |->
                                            Convert(value.items[i])]) \o "}")
      [] value.t = "dict"  ->
            (IF Len(value.keys) = 0 THEN "{}"
             ELSE "{" \o JoinWith(", ", [i \in 1..Len(value.keys) |->
                        value.keys[i] \o ":" \o Convert(value.vals[i])])
                  \o "}")

-----------------------------------------------------------------------------
(* AppleScriptCommand. A command object is the record of its three         *)
(* fields; each method returns the object after the call.                  *)

Cmd(t, c, r) == [tell_app |-> t, commands |-> c, raw_script |-> r]

\* AppleScriptCommand()
NewCommand == Cmd(PyNone, <<>>, PyNone)

\* bool(value)
Truthy(v) ==
    CASE v.t = "none" -> FALSE
      [] v.t = "bool" -> v.b
      [] v.t = "int"  -> v.n # 0
      [] v.t = "str"  -> v.s # ""
      [] v.t = "list" -> Len(v.items) > 0
      [] v.t = "dict" -> Len(v.keys) > 0
      [] OTHER        -> TRUE

Tell(cmd, application) == [cmd EXCEPT !.tell_app = PyStr(application)]

AddCommand(cmd, command) ==
    [cmd EXCEPT !.commands = Append(cmd.commands, command)]

\* the text set() gives the value
SetValueText(to) ==
    IF to.t = "str" /\ IsAppleScriptExpression(to.s) THEN to.s
    ELSE Convert(to)

SetStatement(property_name, of, to) ==
    "set " \o property_name \o " of " \o of \o " to " \o SetValueText(to)

Set(cmd, property_name, of, to) ==
    AddCommand(cmd, SetStatement(property_name, of, to))

\* of is None or a reference
Get(cmd, property_name, of) ==
    AddCommand(cmd, IF Truthy(of)
                    THEN "get " \o property_name \o " of " \o of.s
                    ELSE "get " \o property_name)

\* _build_properties_record, of AppleScriptCommand and of
\* TodoCommandBuilder alike
BuildPropertiesRecord(properties) ==
    IF Len(properties.keys) = 0 THEN "{}"
    ELSE "{" \o JoinWith(", ", [i \in 1..Len(properties.keys) |->
                properties.keys[i] \o ":" \o Convert(properties.vals[i])])
         \o "}"

\* with_properties is None or a dict, at is None or a location
MakeNew(cmd, class_name, with_properties, at) ==
    AddCommand(cmd,
        "make new " \o class_name
          \o (IF Truthy(with_properties)
              THEN " with properties " \o BuildPropertiesRecord(with_properties)
              ELSE "")
          \o (IF Truthy(at) THEN " at " \o at.s ELSE ""))

DeleteStatement(object_ref) == "delete " \o object_ref

Delete(cmd, object_ref) == AddCommand(cmd, DeleteStatement(object_ref))

MoveStatement(object_ref, to) == "move " \o object_ref \o " to " \o to

Move(cmd, object_ref, to) == AddCommand(cmd, MoveStatement(object_ref, to))

ReturnValue(cmd, expression) == AddCommand(cmd, "return " \o expression)

Raw(cmd, script) == [cmd EXCEPT !.raw_script = PyStr(script)]

WithProperties(cmd, properties) ==
    AddCommand(cmd, "with properties " \o BuildPropertiesRecord(properties))

BuiltText(text) == [kind |-> "text", text |-> text]
BuildRaised(error) == [kind |-> "raise", error |-> error]

\* a build() that looks at the statements before the raw override
BuildResultStatementsFirst(cmd) ==
    IF Len(cmd.commands) = 0 THEN BuildRaised("ValueError")
    ELSE IF cmd.raw_script # PyNone THEN BuiltText(cmd.raw_script.s)
    ELSE IF Truthy(cmd.tell_app)
    THEN BuiltText("tell application \"" \o cmd.tell_app.s \o "\"\n    "
                     \o JoinWith("\n    ", cmd.commands) \o "\nend tell")
    ELSE BuiltText(JoinWith("\n", cmd.commands))

\* a build() that indents the statements of an unscoped command too
BuildResultIndented(cmd) ==
    IF cmd.raw_script # PyNone THEN BuiltText(cmd.raw_script.s)
    ELSE IF Len(cmd.commands) = 0 THEN BuildRaised("ValueError")
    ELSE IF Truthy(cmd.tell_app)
    THEN BuiltText("tell application \"" \o cmd.tell_app.s \o "\"\n    "
                     \o JoinWith("\n    ", cmd.commands) \o "\nend tell")
    ELSE BuiltText(JoinWith("\n    ", cmd.commands))

\* what build() returns or raises
BuildResult(cmd) ==
    IF cmd.raw_script # PyNone THEN BuiltText(cmd.raw_script.s)
    ELSE IF Len(cmd.commands) = 0 THEN BuildRaised("ValueError")
    ELSE IF Truthy(cmd.tell_app)
    THEN BuiltText("tell application \"" \o cmd.tell_app.s \o "\"\n    "
                     \o JoinWith("\n    ", cmd.commands) \o "\nend tell")
    ELSE BuiltText(JoinWith("\n", cmd.commands))

\* a build() that hands its statements over and leaves the list empty
BuildConsuming(cmd) ==
    [result |-> BuildResult(cmd), after |-> [cmd EXCEPT !.commands = <<>>]]

\* build(): its result, and the object after the call; build assigns to no
\* field
Build(cmd) == [result |-> BuildResult(cmd), after |-> cmd]

-----------------------------------------------------------------------------
(* Things 3 command generators (things3/command_builders.py).  The data    *)
(* of a call is a function from the keys the caller supplied to their      *)
(* values: a key that is absent is not in its DOMAIN, a key supplied as    *)
(* None maps to PyNone.  The statements a helper adds to the command are   *)
(* the sequence it returns.                                                *)

\* AppleScriptReferenceConverter.is_reference
IsReference(value) ==
    \E prefix \in {"project id ", "project ", "area id ", "area ", "tag ",
                   "to do id ", "to do ", "list "} : StartsWith(value, prefix)

\* Things3CommandBuilder._format_date: None, or the text of the date
FormatDateValue(date_value) ==
    IF ~Truthy(date_value) THEN PyNone
    ELSE IF /\ date_value.t = "str"
            /\ Lower(date_value.s) \in
                 {"today", "tomorrow", "evening", "anytime", "someday"}
    THEN PyStr(Lower(date_value.s))
    ELSE PyStr(Convert(date_value))

\* Things3CommandBuilder._format_reference: None, or the reference
FormatReference(ref, ref_type) ==
    IF ~Truthy(ref) THEN PyNone
    ELSE IF IsReference(ref.s) THEN ref
    ELSE IF StartsWith(ref.s, ref_type \o " id ") THEN ref
    ELSE PyStr(ref_type \o " \"" \o ref.s \o "\"")

AddCommands(cmd, statements) ==
    [cmd EXCEPT !.commands = cmd.commands \o statements]

\* ", ".join(data["tags"])
TagNames(tags) == JoinWith(", ", [i \in 1..Len(tags.items) |-> tags.items[i].s])

\* the date block of _add_todo_property_commands ("due_date", "due date")
\* and of _add_project_property_commands ("deadline", "deadline")
DateCommands(key, property_name, ref, data) ==
    IF key \notin DOMAIN data THEN <<>>
    ELSE IF Truthy(data[key])
    THEN IF Truthy(FormatDateValue(data[key]))
         THEN <<SetStatement(property_name, ref, FormatDateValue(data[key]))>>
         ELSE <<>>
    ELSE <<DeleteStatement(property_name \o " of " \o ref)>>

\* the tags block of both property helpers
TagsCommands(ref, data) ==
    IF "tags" \notin DOMAIN data THEN <<>>
    ELSE IF Truthy(data["tags"])
    THEN <<SetStatement("tag names", ref, PyStr(TagNames(data["tags"])))>>
    ELSE <<SetStatement("tag names", ref, PyStr(""))>>

\* the project block of _add_todo_property_commands
ProjectCommands(ref, data) ==
    IF "project" \notin DOMAIN data THEN <<>>
    ELSE IF Truthy(data["project"])
    THEN <<MoveStatement(ref, FormatReference(data["project"], "project").s)>>
    ELSE <<MoveStatement(ref, "list \"Inbox\"")>>

\* the area block of both property helpers
AreaCommands(ref, data) ==
    IF "area" \notin DOMAIN data THEN <<>>
    ELSE IF Truthy(data["area"])
    THEN <<SetStatement("area", ref, FormatReference(data["area"], "area"))>>
    ELSE <<SetStatement("area", ref, PyStr("missing value"))>>

\* _add_scheduling_command on when_lower = when.lower()
SchedulingCommands(todo_ref, when_lower) ==
    IF when_lower = "tomorrow"
    THEN << MoveStatement(todo_ref, "list \"Today\""),
            SetStatement("due date", todo_ref,
                         PyStr("(current date) + (1 * days)")) >>
    ELSE IF when_lower \in {"today", "upcoming", "anytime", "someday"}
    THEN <<MoveStatement(todo_ref, "list \"" \o Capitalize(when_lower) \o "\"")>>
    ELSE <<>>

\* _add_project_scheduling_command on when_lower = when.lower()
ProjectSchedulingCommands(project_ref, when_lower) ==
    IF when_lower \in {"anytime", "someday"}
    THEN <<MoveStatement(project_ref,
                         "list \"" \o Capitalize(when_lower) \o "\"")>>
    ELSE <<>>

\* _add_checklist_commands: items are strings or dicts with a name
ChecklistItemName(item) ==
    IF IsDict(item) /\ HasKey(item, "name") THEN DictGet(item, "name") ELSE item

ChecklistCommands(todo_ref, checklist) ==
    [i \in 1..Len(checklist.items) |->
        "tell " \o todo_ref \o " to make new checklist item with properties {name:"
          \o Convert(ChecklistItemName(checklist.items[i])) \o "}"]

\* a status change that reopens by writing missing value to both dates
StatusChangeClearing(ref, status) ==
    IF status = PyStr("completed")
    THEN <<SetStatement("completion date", ref, PyStr("(current date)"))>>
    ELSE IF status = PyStr("canceled")
    THEN <<SetStatement("cancellation date", ref, PyStr("(current date)"))>>
    ELSE <<SetStatement("completion date", ref, PyStr("missing value")),
           SetStatement("cancellation date", ref, PyStr("missing value"))>>

\* AppleScriptOrchestrator._set_todo_status: the list of statements
SetTodoStatus(todo_ref, data) ==
    IF "status" \notin DOMAIN data THEN <<>>
    ELSE IF data["status"] = PyStr("completed")
    THEN <<"set completion date of " \o todo_ref \o " to (current date)">>
    ELSE IF data["status"] = PyStr("canceled")
    THEN <<"set cancellation date of " \o todo_ref \o " to (current date)">>
    ELSE <<>>

\* _add_status_change_command and _add_project_status_command
StatusChangeCommands(ref, status) ==
    IF status = PyStr("completed")
    THEN <<SetStatement("completion date", ref, PyStr("(current date)"))>>
    ELSE IF status = PyStr("canceled")
    THEN <<SetStatement("cancellation date", ref, PyStr("(current date)"))>>
    ELSE <<>>

\* when.lower() raises AttributeError unless when is a string
WhenRaises(data) == "when" \in DOMAIN data /\ data["when"].t # "str"

\* _add_todo_property_commands
TodoPropertyCommands(todo_ref, data) ==
    DateCommands("due_date", "due date", todo_ref, data)
      \o TagsCommands(todo_ref, data)
      \o ProjectCommands(todo_ref, data)
      \o AreaCommands(todo_ref, data)
      \o (IF "when" \in DOMAIN data
          THEN SchedulingCommands(todo_ref, Lower(data["when"].s))
          ELSE <<>>)
      \o (IF "checklist" \in DOMAIN data /\ Contains(todo_ref, "newTodo")
          THEN ChecklistCommands(todo_ref, data["checklist"])
          ELSE <<>>)

\* _add_project_property_commands
ProjectPropertyCommands(project_ref, data) ==
    DateCommands("deadline", "deadline", project_ref, data)
      \o TagsCommands(project_ref, data)
      \o AreaCommands(project_ref, data)
      \o (IF "when" \in DOMAIN data
          THEN ProjectSchedulingCommands(project_ref, Lower(data["when"].s))
          ELSE <<>>)

\* the properties create_todo gives make new
CreationProperties(data) ==
    LET named == IF "name" \in DOMAIN data
                 THEN DictSet(EmptyDict, "name", data["name"]) ELSE EmptyDict
        noted == IF "notes" \in DOMAIN data
                 THEN DictSet(named, "notes", data["notes"]) ELSE named
    IN  IF "tags" \in DOMAIN data /\ Truthy(data["tags"])
        THEN DictSet(noted, "tag names", PyStr(TagNames(data["tags"])))
        ELSE noted

\* the name, notes and status statements of update_todo and update_project
BasicCommands(ref, data) ==
    (IF "name" \in DOMAIN data
     THEN <<SetStatement("name", ref, data["name"])>> ELSE <<>>)
      \o (IF "notes" \in DOMAIN data
          THEN <<SetStatement("notes", ref, data["notes"])>> ELSE <<>>)
      \o (IF "status" \in DOMAIN data
          THEN StatusChangeCommands(ref, data["status"]) ELSE <<>>)

\* TodoCommandBuilder.create_todo(data)
CreateTodo(data) ==
    ReturnValue(
        AddCommands(
            AddCommand(Tell(NewCommand, "Things3"),
                       "set newTodo to make new to do with properties "
                         \o BuildPropertiesRecord(CreationProperties(data))),
            TodoPropertyCommands("newTodo", data)),
        "id of newTodo")

TodoRef(todo_id) == "to do id \"" \o todo_id \o "\""

\* TodoCommandBuilder.update_todo(todo_id, data)
UpdateTodo(todo_id, data) ==
    ReturnValue(
        AddCommands(
            AddCommands(Tell(NewCommand, "Things3"),
                        BasicCommands(TodoRef(todo_id), data)),
            TodoPropertyCommands(TodoRef(todo_id), data)),
        "\"" \o todo_id \o "\"")

\* TodoCommandBuilder.delete_todo(todo_id)
DeleteTodo(todo_id) ==
    ReturnValue(Delete(Tell(NewCommand, "Things3"), TodoRef(todo_id)),
                "\"success\"")

ProjectRef(project_id) == "project id \"" \o project_id \o "\""

\* ProjectCommandBuilder.update_project(project_id, data)
UpdateProject(project_id, data) ==
    ReturnValue(
        AddCommands(
            AddCommands(Tell(NewCommand, "Things3"),
                        BasicCommands(ProjectRef(project_id), data)),
            ProjectPropertyCommands(ProjectRef(project_id), data)),
        "\"" \o project_id \o "\"")

\* Things3Orchestrator.list_tags, on what execute_command returned
ListTags(result) == IF IsList(result) THEN result ELSE PyList(<<>>)

-----------------------------------------------------------------------------
(* Errors (applescript/errors.py), the engine (applescript/core.py), the   *)
(* Things 3 orchestrator and the get-by-id operations of Things3API.  What *)
(* osascript does with a script is an input: it prints an output, fails    *)
(* with an error output and a return code, or times out.                   *)

\* AppleScriptError(message), the base class
AppleScriptError(message) == [kind |-> "AppleScriptError", message |-> message]

ExecutionError(message, stderr, returncode, script) ==
    [kind |-> "AppleScriptExecutionError", message |-> message,
     stderr |-> stderr, returncode |-> returncode, script |-> script]

\* AppleScriptEngine.DEFAULT_TIMEOUT, as str() prints it
DefaultTimeout == "30.0"

TimeoutError(timeout_seconds, script) ==
    [kind |-> "AppleScriptTimeoutError", timeout_seconds |-> timeout_seconds,
     script |-> script]

\* AppleScriptExecutionError.__str__
ExecutionErrorText(e) ==
    JoinWith(" | ",
        <<e.message>>
          \o (IF e.stderr # "" THEN <<"Error output: " \o e.stderr>> ELSE <<>>)
          \o (IF e.returncode # 0
              THEN <<"Return code: " \o IntStr(e.returncode)>> ELSE <<>>)
          \o (IF e.script # ""
              THEN <<"Script: " \o PySlice(e.script, 0, 100) \o "...">>
              ELSE <<>>))

\* AppleScriptParsingError.__str__, for the errors of the Things 3 chain
ParsingErrorText(e) ==
    "Failed to parse AppleScript output with " \o e.parser_type
      \o (IF e.original_error = "ValueError"
          THEN ": No parser could handle the output" ELSE "")
      \o " | Output: " \o PySlice(e.raw_output, 0, 100) \o "..."

\* str(e)
ErrorText(e) ==
    CASE e.kind = "AppleScriptExecutionError" -> ExecutionErrorText(e)
      [] e.kind = "AppleScriptTimeoutError" ->
            "AppleScript execution timed out after " \o e.timeout_seconds
              \o " seconds"
      [] e.kind = "AppleScriptParsingError" -> ParsingErrorText(e)
      [] e.kind = "AppleScriptError" -> e.message

Raised(error) == [kind |-> "raise", error |-> error]

\* timeout_value = timeout or self.timeout, as the text of the number; the
\* timeout of a call is None or a whole number of seconds
TimeoutValue(timeout, configured) ==
    IF Truthy(timeout) THEN IntStr(timeout.n) ELSE configured

\* AppleScriptEngine(timeout=configured).execute(script, flags, timeout)
\* when osascript runs as run says
Execute(script, timeout, configured, run) ==
    CASE run.kind = "output"  -> [kind |-> "output", text |-> Strip(run.stdout)]
      [] run.kind = "timeout" ->
            Raised(TimeoutError(TimeoutValue(timeout, configured), script))
      [] run.kind = "failed"  ->
            Raised(ExecutionError("AppleScript execution failed", run.stderr,
                                  run.returncode, script))

\* AppleScriptEngine.execute(script) of the engine the orchestrator makes
EngineExecute(script, run) == Execute(script, PyNone, DefaultTimeout, run)

\* the script execute_command makes of a string command
CommandScript(command) ==
    IF StartsWith(command, "tell application") THEN command
    ELSE "tell application \"Things3\"\n    " \o command \o "\nend tell"

ExecuteParse(parsed) ==
    IF parsed.kind = "value" THEN [kind |-> "value", value |-> parsed.value]
    ELSE Raised(parsed)

ExecuteRan(ran) ==
    IF ran.kind = "raise" THEN ran
    ELSE ExecuteParse(ChainParse("things3", ran.text))

\* Things3Orchestrator._is_write_command
WriteIndicators == {"make new", "set ", "delete ", "move ", "create ", "update "}

IsWriteCommand(script) ==
    \E indicator \in WriteIndicators : Contains(script, indicator)

\* use_structured of execute_command
UseStructured(script, return_raw) == ~return_raw /\ ~IsWriteCommand(script)

\* the flags execute_structured adds, and those of a plain execute
EngineFlags(structured) == IF structured THEN <<"-s", "s">> ELSE <<>>

\* execute_command from the script on: run the engine, parse the output
ExecuteScript(script, run) == ExecuteRan(EngineExecute(script, run))

\* one osascript process: its script and flags, what it did (run), and what
\* execute_command returned or raised for it (ran)
Execution(script, run) ==
    [script |-> script, flags |-> EngineFlags(UseStructured(script, FALSE)),
     run |-> run, ran |-> ExecuteScript(script, run)]

\* Things3Orchestrator.execute_command(command) for a string command
ExecuteCommand(command, run) == ExecuteScript(CommandScript(command), run)

ApiReturn(value) == [kind |-> "return", value |-> value]

\* the object _parse_todo(props) and its like make of the properties, and
\* the tags it holds
ParsedObject(type, props, tags) ==
    [t |-> "object", type |-> type, props |-> props, tags |-> tags]

\* [tag.strip() for tag in value.split(",") if tag.strip()]
TagList(value) ==
    LET stripped == [i \in 1..Len(SplitOn(value, ",")) |->
                        PyStr(Strip(SplitOn(value, ",")[i]))]
    IN  PyList(SelectSeq(stripped, LAMBDA tag : tag.s # ""))

\* props.get("tag names", "")
TagNamesOf(props) ==
    IF HasKey(props, "tag names") THEN DictGet(props, "tag names") ELSE PyStr("")

\* Things3API._parse_tags can be evaluated: tag_names is falsy or has split
CanParseTags(tag_names) == ~Truthy(tag_names) \/ tag_names.t = "str"

\* Things3API._parse_tags
ParseTags(tag_names) ==
    IF ~Truthy(tag_names) THEN PyList(<<>>) ELSE TagList(tag_names.s)

\* dateutil is not part of the repository: of the texts of the model its
\* parser accepts these and fails on the others
ParsableDates == {"Friday, June 20, 2025 at 20:24:26"}

\* Things3API._parse_date: None, or the datetime of the text
ParseDate(date_str) ==
    IF ~Truthy(date_str) THEN PyNone
    ELSE IF date_str.t = "str" /\ date_str.s \in ParsableDates
    THEN [t |-> "datetime", text |-> date_str.s]
    ELSE PyNone

PythonError(type, about) == [kind |-> type, about |-> about]

\* Todo(id=props["id"], name=props["name"], ...) and its like: the two
\* subscripts, then the validation of the model (id: str, name: str)
MakeObject(type, props) ==
    IF ~HasKey(props, "id") THEN Raised(PythonError("KeyError", "id"))
    ELSE IF ~HasKey(props, "name") THEN Raised(PythonError("KeyError", "name"))
    ELSE IF type # "tag" /\ ~CanParseTags(TagNamesOf(props))
    THEN Raised(PythonError("AttributeError", "split"))
    ELSE IF DictGet(props, "id").t # "str"
    THEN Raised(PythonError("ValidationError", "id"))
    ELSE IF DictGet(props, "name").t # "str"
    THEN Raised(PythonError("ValidationError", "name"))
    ELSE ApiReturn(ParsedObject(type, props,
                                IF type = "tag" THEN PyList(<<>>)
                                ELSE ParseTags(TagNamesOf(props))))

\* _parse_todo and _parse_project
ParseDated(type, props) ==
    IF ~IsDict(props) THEN Raised(PythonError("AttributeError", "get"))
    ELSE IF ~HasKey(props, "creation date")
    THEN Raised(PythonError("KeyError", "creation date"))
    ELSE IF ~Truthy(ParseDate(DictGet(props, "creation date")))
    THEN Raised(PythonError("ValueError", "creation date is required"))
    ELSE MakeObject(type, props)

\* _parse_area and _parse_tag
ParsePlain(type, props) ==
    IF ~IsDict(props) THEN Raised(PythonError("TypeError", "id"))
    ELSE MakeObject(type, props)

ParseEntity(type, props) ==
    IF type \in {"to do", "project"} THEN ParseDated(type, props)
    ELSE ParsePlain(type, props)

\* accept every error as not found
IsNotFoundAlways(type, text) == TRUE

\* "Can't get <type> id" in str(e)
IsNotFound(type, text) == Contains(text, "Can't get " \o type \o " id")

GetByIdAfter(type, ran) ==
    IF ran.kind = "raise"
    THEN IF IsNotFound(type, ErrorText(ran.error)) THEN ApiReturn(PyNone)
         ELSE ran
    ELSE IF ~Truthy(ran.value) THEN ApiReturn(PyNone)
    ELSE ParseEntity(type, ran.value)

LookupCommand(type, id) == "get properties of " \o type \o " id \"" \o id \o "\""

\* Things3API.get_todo, get_project, get_area, get_tag: type is "to do",
\* "project", "area" or "tag"
GetById(type, id, run) == GetByIdAfter(type, ExecuteCommand(LookupCommand(type, id), run))

\* Things3DateParser.parse_date_expression, of None or a text
ParseDateExpression(expr) ==
    IF ~Truthy(expr) \/ expr = PyStr("missing value") THEN PyNone
    ELSE IF Lower(expr.s) \in {"today", "tomorrow", "evening", "anytime", "someday"}
    THEN PyStr(Lower(expr.s))
    ELSE expr

\* Things3StatusParser.parse_status
ParseStatus(status_str) ==
    IF ~Truthy(status_str) THEN PyNone
    ELSE CASE Lower(status_str.s) \in {"open", "completed", "canceled"} ->
                  PyStr(Lower(status_str.s))
           [] Lower(status_str.s) = "cancelled" -> PyStr("canceled")
           [] OTHER -> PyNone

\* Things3ClassParser.parse_class
ParseClass(class_str) ==
    IF ~Truthy(class_str) THEN PyNone
    ELSE CASE Lower(class_str.s) = "to do" -> PyStr("todo")
           [] Lower(class_str.s) = "selected to do" -> PyStr("selected_todo")
           [] Lower(class_str.s) = "checklist item" -> PyStr("checklist_item")
           [] Lower(class_str.s) \in {"project", "area", "tag"} ->
                  PyStr(Lower(class_str.s))
           [] OTHER -> PyNone

\* the value normalize_properties stores under the key
NormalizeValue(key, value) ==
    CASE EndsWith(key, "date") \/ key \in {"deadline", "when"} ->
             ParseDateExpression(value)
      [] key = "status" -> ParseStatus(value)
      [] key = "class"  -> ParseClass(value)
      [] key = "tag names" /\ value.t = "str" -> TagList(value.s)
      [] OTHER -> value

\* Things3PropertyNormalizer.normalize_properties
NormalizeProperties(props) ==
    PyDict(props.keys,
           [i \in 1..Len(props.keys) |-> NormalizeValue(props.keys[i], props.vals[i])])

\* Things3Orchestrator.list_todos after execute_command returned
ListTodosAfter(ran) ==
    IF ran.kind = "raise" THEN ran
    ELSE IF IsList(ran.value)
    THEN [kind |-> "value",
          value |-> PyList([i \in 1..Len(SelectSeq(ran.value.items, IsDict)) |->
                       NormalizeProperties(SelectSeq(ran.value.items, IsDict)[i])])]
    ELSE [kind |-> "value", value |-> PyList(<<>>)]

\* props_list of the get_all_* and get_*_by_* operations
PropsList(value) ==
    IF IsList(value) THEN value.items
    ELSE IF Truthy(value) THEN <<value>>
    ELSE <<>>

\* [self._parse_todo(props) for props in props_list]: the first failure
\* ends the comprehension
ParseAll(type, props_list) ==
    LET parsed == [i \in 1..Len(props_list) |-> ParseEntity(type, props_list[i])]
        failed == {i \in 1..Len(props_list) : parsed[i].kind = "raise"}
    IN  IF failed # {}
        THEN parsed[CHOOSE i \in failed : \A j \in failed : i <= j]
        ELSE ApiReturn(PyList([i \in 1..Len(props_list) |-> parsed[i].value]))

ListAfter(type, ran) ==
    IF ran.kind = "raise" THEN ran ELSE ParseAll(type, PropsList(ran.value))

\* what an API operation did: the osascript processes it spawned, in
\* order, and what it returned or raised
ApiOutcome(procs, result) == [processes |-> procs, result |-> result]

\* Things3API.get_all_todos, get_all_projects, get_all_areas, get_all_tags,
\* get_todos_by_project, get_todos_by_area: command is the query
ListByCommand(type, command, run) ==
    ApiOutcome(<<Execution(CommandScript(command), run)>>,
               ListAfter(type, ExecuteCommand(command, run)))

\* the command Things3Orchestrator.list_todos builds
ListTodosCommand(list_name) ==
    Get(Tell(NewCommand, "Things3"), "properties",
        PyStr(IF list_name # ""
              THEN "every to do of list \"" \o list_name \o "\""
              ELSE "every to do"))

\* Things3API.get_todos_by_list
GetTodosByList(list_name, run) ==
    ApiOutcome(<<Execution(BuildResult(ListTodosCommand(list_name)).text, run)>>,
               ListAfter("to do",
                   ListTodosAfter(ExecuteScript(
                       BuildResult(ListTodosCommand(list_name)).text, run))))

\* f"{value}" of what the chain parsed
IdText(value) ==
    CASE value.t = "str" -> value.s
      [] value.t = "int" -> IntStr(value.n)
      [] OTHER -> "None"

\* the get_todo / get_project that follows a write, and what the
\* operation returns
FetchWritten(what, type, id, first, run) ==
    LET fetch == Execution(CommandScript(LookupCommand(type, id)), run)
    IN  ApiOutcome(<<first, fetch>>,
            IF GetByIdAfter(type, fetch.ran) = ApiReturn(PyNone)
            THEN Raised(AppleScriptError("Failed to retrieve " \o what
                                           \o " with ID: " \o id))
            ELSE GetByIdAfter(type, fetch.ran))

CreatedAfter(first, run) ==
    IF first.ran.kind = "raise" THEN ApiOutcome(<<first>>, first.ran)
    ELSE IF ~Truthy(first.ran.value)
    THEN ApiOutcome(<<first>>,
             Raised(AppleScriptError("Failed to create todo - no ID returned")))
    ELSE FetchWritten("created todo", "to do", IdText(first.ran.value), first, run)

\* Things3API.create_todo, data being the dumped fields
CreateTodoApi(data, run, fetch_run) ==
    IF WhenRaises(data)
    THEN ApiOutcome(<<>>, Raised(PythonError("AttributeError", "lower")))
    ELSE CreatedAfter(Execution(BuildResult(CreateTodo(data)).text, run), fetch_run)

UpdatedAfter(what, type, id, first, run) ==
    IF first.ran.kind = "raise" THEN ApiOutcome(<<first>>, first.ran)
    ELSE IF ~Truthy(first.ran.value) \/ first.ran.value # PyStr(id)
    THEN ApiOutcome(<<first>>,
             Raised(AppleScriptError("Failed to update " \o what
                                       \o " - unexpected result: "
                                       \o IdText(first.ran.value))))
    ELSE FetchWritten("updated " \o what, type, id, first, run)

\* Things3API.update_todo and update_project: command is what the builder
\* made of the dumped fields
UpdateApi(what, type, id, data, command, run, fetch_run) ==
    IF WhenRaises(data)
    THEN ApiOutcome(<<>>, Raised(PythonError("AttributeError", "lower")))
    ELSE UpdatedAfter(what, type, id,
                      Execution(BuildResult(command).text, run), fetch_run)

\* Things3API.create_project: ProjectCommandBuilder has no
\* _build_properties_record
CreateProjectApi == ApiOutcome(<<>>, Raised(PythonError("AttributeError",
                                            "_build_properties_record")))

-----------------------------------------------------------------------------
(* The texts the parsers are run on.  A text is composed from a            *)
(* description (parse_input) and rendered the way osascript -s s prints    *)
(* it.                                                                     *)

MaxRecords == 3    \* records in a record list
MaxItems   == 3    \* items in a plain list

\* the keys of the first and of the second field of a composed record
RecordKeys == <<"name", "id">>

BareValue(s)          == [form |-> "bare", type |-> "", s |-> s]
QuotedValue(s)        == [form |-> "quoted", type |-> "", s |-> s]
RefById(type, id)     == [form |-> "ref_id", type |-> type, s |-> id]
RefByName(type, name) == [form |-> "ref_name", type |-> type, s |-> name]

IdTypes   == {"project", "area", "to do"}
NameTypes == {"tag", "list"}
RefIds    == {"ABC", "X1"}
RefNames  == {"Work", "Home Office", "Get id card"}

\* the field values of a single record
FieldValues ==
    {BareValue(s) : s \in {"1", "missing value", "true", "open"}}
      \cup {QuotedValue(s) : s \in {"x", "a, b: c", "say \\\"hi\\\"", "a\\\\b"}}
      \cup {RefById(type, id) : type \in IdTypes, id \in RefIds}
      \cup {RefByName(type, name) : type \in NameTypes, name \in RefNames}

\* the field values of the records of a record list
ListFieldValues == {BareValue("1"), QuotedValue("a, b: c")}

RenderValue(v) ==
    CASE v.form = "bare"     -> v.s
      [] v.form = "quoted"   -> "\"" \o v.s \o "\""
      [] v.form = "ref_id"   ->
            v.type \o " id \"" \o v.s \o "\" of application \"Things3\""
      [] v.form = "ref_name" ->
            v.type \o " \"" \o v.s \o "\" of application \"Things3\""

\* a record is the sequence of the values of its fields
RenderRecord(rec) ==
    "{" \o JoinWith(", ", [i \in 1..Len(rec) |->
                              RecordKeys[i] \o ":" \o RenderValue(rec[i])])
        \o "}"

RenderRecordList(recs) ==
    "{" \o JoinWith(", ", [i \in 1..Len(recs) |-> RenderRecord(recs[i])])
        \o "}"

RenderList(items) == "{" \o JoinWith(",", items) \o "}"

RecordsOver(values) ==
    UNION {[1..n -> values] : n \in 1..Len(RecordKeys)}

SingleRecordInputs ==
    {[kind |-> "record", records |-> <<rec>>] : rec \in RecordsOver(FieldValues)}

\* record lists whose quoted values hold an escaped quote, a doubled
\* backslash, an escaped quote before a comma
EscapedRecords ==
    << <<QuotedValue("say \\\"hi\\\""), QuotedValue("a\\\\b")>>,
       <<QuotedValue("a\\\", b"), QuotedValue("x")>>,
       <<QuotedValue("a\\\"}, {b"), BareValue("1")>> >>

RecordListInputs ==
    {[kind |-> "record_list", records |-> recs] :
        recs \in UNION {[1..n -> RecordsOver(ListFieldValues)] :
                           n \in 1..MaxRecords}}
      \cup {[kind |-> "record_list", records |-> SubSeq(EscapedRecords, 1, n)] :
              n \in 1..Len(EscapedRecords)}

ListItemTexts == {"a", "b", "1", "\"x y\""}

ListInputs ==
    {[kind |-> "list", items |-> items] :
        items \in UNION {[1..n -> ListItemTexts] : n \in 0..MaxItems}}

\* what Things 3 prints for "get name of every tag": a list of the tag
\* names, each in quotes; a tag name may hold a colon
TagNameTexts == {"Home", "Work: urgent"}

TagListInputs ==
    {[kind |-> "tag_list", items |-> items] :
        items \in UNION {[1..n -> TagNameTexts] : n \in 1..2}}

RenderTagList(items) ==
    "{" \o JoinWith(", ", [i \in 1..Len(items) |-> "\"" \o items[i] \o "\""])
        \o "}"

PlainTexts ==
    {"missing value", "42", "-7", "true", "false", "\"hi\"", "hello", " ",
     "", " \n\t", "TRUE", "False", "3.14", "1.2.3", "  hello world \n",
     "date \"Monday, January 1, 2024 at 12:00:00 AM\"",
     "{\"a\": 1}", "[1, 2]", "{\"a\": \"b, c\"}", "{\"a\" 1}", "[1, 2,]",
     "{a:1}", "{{a:1},{a:2}}", "{a,b,c}", "{}"}

TextInputs == {[kind |-> "text", text |-> t] : t \in PlainTexts}

Render(inp) ==
    CASE inp.kind = "record"      -> RenderRecord(inp.records[1])
      [] inp.kind = "record_list" -> RenderRecordList(inp.records)
      [] inp.kind = "list"        -> RenderList(inp.items)
      [] inp.kind = "tag_list"    -> RenderTagList(inp.items)
      [] inp.kind = "text"        -> inp.text

RecordInputs == SingleRecordInputs \cup RecordListInputs

ParseInputs ==
    RecordInputs \cup ListInputs \cup TagListInputs \cup TextInputs

\* the values handed to convert()
ConvertValues ==
    {PyNone, PyBool(TRUE), PyBool(FALSE), PyInt(42), PyInt(-7), PyStr("hi"),
     PyStr("say \"hi\""), PyStr("missing value"), PyStr("project id \"ABC\""),
     PyStr("true"), PyStr("false"), PyStr(" current date "),
     PyStr("(current date) + (2 * days)"), PyStr("list \"Inbox\""),
     PyStr("tag Home"), PyStr("contact x"), PyStr("a\\"), PyStr("a\\\"b"),
     PyDate(0), PyDate(1), PyDate(-1), PyDate(3), PyDate(-3), PyDate(10),
     PyDate(-10),
     PyList(<<>>), PyList(<<PyInt(1), PyStr("a")>>),
     PyDict(<<>>, <<>>), PyDict(<<"name", "due">>, <<PyStr("a"), PyNone>>)}

-----------------------------------------------------------------------------
(* The state after construction, and the parser and converter calls.       *)

NoInput   == [kind |-> "none"]
NoOutcome == ChainCall(<<>>, <<>>, [kind |-> "none"])
NoValue   == [t |-> "unset"]
NotBuilt  == [kind |-> "none"]
NoCall    == [op |-> "none"]
EngineIdle == [kind |-> "idle"]
NoResult  == [kind |-> "none"]

MaxRequests == 3    \* tool requests in one run of the server
Requests == 1..MaxRequests
NoTask == [state |-> "none", op |-> "", left |-> 0, result |-> ""]

Chains        == {"default", "things3"}
RecordParsers == {"StructuredRecordParser", "Things3RecordParser"}

Init ==
    /\ raw_output = ""
    /\ chain = "none"
    /\ parse_input = NoInput
    /\ outcome = NoOutcome
    /\ py_value = NoValue
    /\ tell_app = PyNone
    /\ commands = <<>>
    /\ raw_script = PyNone
    /\ built = NotBuilt
    /\ built_before = NotBuilt
    /\ last_op = [op |-> "new"]
    /\ api_call = NoCall
    /\ engine = EngineIdle
    /\ api_result = NoResult
    /\ processes = <<>>
    /\ tasks = [r \in Requests |-> NoTask]
    /\ running = 0

\* The parsers and the converter keep no state between calls, so each call
\* is taken from the state after construction.

\* ParserChain.parse(raw_output) on the default or on the Things3 chain
ChainParseCall ==
    \E c \in Chains, inp \in ParseInputs :
        /\ parse_input = NoInput
        /\ raw_output' = Render(inp)
        /\ chain' = c
        /\ parse_input' = inp
        /\ outcome' = ChainRun(c, Render(inp))
        /\ py_value' = NoValue
        /\ UNCHANGED <<builderVars, apiVars>>

\* StructuredRecordParser.parse / Things3RecordParser.parse called on its
\* own, as the parser tests do
RecordParseCall ==
    \E p \in RecordParsers, inp \in RecordInputs :
        /\ parse_input = NoInput
        /\ raw_output' = Render(inp)
        /\ chain' = p
        /\ parse_input' = inp
        /\ outcome' = ChainCall(<<>>, <<p>>, RunParser(p, Render(inp)))
        /\ py_value' = NoValue
        /\ UNCHANGED <<builderVars, apiVars>>

\* PythonToAppleScriptConverter.convert(value)
ConvertCall ==
    \E v \in ConvertValues :
        /\ parse_input = NoInput
        /\ py_value' = v
        /\ raw_output' = Convert(v)
        /\ chain' = "none"
        /\ parse_input' = [kind |-> "converted"]
        /\ outcome' = NoOutcome
        /\ UNCHANGED <<builderVars, apiVars>>

\* AppleScriptOrchestrator._format_date_for_applescript(date_value)
LegacyFormatDateCall ==
    \E v \in {d \in ConvertValues : d.t = "date"} :
        /\ parse_input = NoInput
        /\ py_value' = v
        /\ raw_output' = FormatDateForApplescript(v.days)
        /\ chain' = "none"
        /\ parse_input' = [kind |-> "legacy_date"]
        /\ outcome' = NoOutcome
        /\ UNCHANGED <<builderVars, apiVars>>

\* the converted text comes back as the output of a script and is parsed
ParseConverted ==
    \E c \in Chains :
        /\ parse_input.kind = "converted"
        /\ chain' = c
        /\ parse_input' = [kind |-> "converted_output"]
        /\ outcome' = ChainRun(c, raw_output)
        /\ UNCHANGED <<raw_output, py_value, builderVars, apiVars>>

\* the converted text comes back as the value of a field of a record
ParseConvertedField ==
    \E c \in Chains :
        LET text == "{value:" \o raw_output \o "}"
        IN  /\ parse_input.kind = "converted"
            /\ chain' = c
            /\ parse_input' = [kind |-> "converted_field"]
            /\ raw_output' = text
            /\ outcome' = ChainRun(c, text)
            /\ UNCHANGED <<py_value, builderVars, apiVars>>

ParserNext ==
    \/ ChainParseCall
    \/ RecordParseCall
    \/ ConvertCall
    \/ LegacyFormatDateCall
    \/ ParseConverted
    \/ ParseConvertedField

SpecParser == Init /\ [][ParserNext]_vars

-----------------------------------------------------------------------------
(* Calls on an AppleScriptCommand.  tell_app, commands and raw_script are  *)
(* the fields of the command object; built and built_before are what the   *)
(* last build() and the build() right before it returned, NotBuilt when    *)
(* the call before was not a build.                                        *)

MaxCommands == 2

Applications == {"Things3", ""}
Statements   == {"activate"}
Scripts      == {"return 1", ""}
ObjectRefs   == {"to do id \"T1\""}
SetCalls ==
    { <<"name", "newTodo", PyStr("Buy milk")>>,
      <<"due date", "to do id \"T1\"", PyDate(1)>>,
      <<"area", "newTodo", PyStr("missing value")>> }
GetCalls == { <<"name", PyNone>>, <<"name", PyStr("to do id \"T1\"")>> }
PropertyDicts == { EmptyDict, PyDict(<<"name">>, <<PyStr("a")>>) }
MakeNewCalls ==
    { <<"to do", PyNone, PyNone>>,
      <<"to do", PyDict(<<"name">>, <<PyStr("a")>>),
        PyStr("beginning of list \"Today\"")>> }

CmdState == Cmd(tell_app, commands, raw_script)

\* the command object becomes cmd by a call that is not a build
Called(cmd) ==
    /\ tell_app' = cmd.tell_app
    /\ commands' = cmd.commands
    /\ raw_script' = cmd.raw_script
    /\ built' = NotBuilt
    /\ built_before' = NotBuilt
    /\ last_op' = [op |-> "call"]
    /\ UNCHANGED <<parserVars, apiVars>>

CanAdd == Len(commands) < MaxCommands

TellCall ==
    \E application \in Applications : /\ Called(Tell(CmdState, application))

AddCommandCall ==
    \E command \in Statements : CanAdd /\ Called(AddCommand(CmdState, command))

SetCall ==
    \E call \in SetCalls :
        CanAdd /\ Called(Set(CmdState, call[1], call[2], call[3]))

GetCall ==
    \E call \in GetCalls : CanAdd /\ Called(Get(CmdState, call[1], call[2]))

MakeNewCall ==
    \E call \in MakeNewCalls :
        CanAdd /\ Called(MakeNew(CmdState, call[1], call[2], call[3]))

DeleteCall ==
    \E object_ref \in ObjectRefs : CanAdd /\ Called(Delete(CmdState, object_ref))

MoveCall ==
    \E object_ref \in ObjectRefs :
        CanAdd /\ Called(Move(CmdState, object_ref, "list \"Today\""))

ReturnValueCall == CanAdd /\ Called(ReturnValue(CmdState, "id of newTodo"))

RawCall == \E script \in Scripts : /\ Called(Raw(CmdState, script))

WithPropertiesCall ==
    \E properties \in PropertyDicts :
        CanAdd /\ Called(WithProperties(CmdState, properties))

\* the state after cmd.build() returned or raised done
Finished(done) ==
    /\ tell_app' = done.after.tell_app
    /\ commands' = done.after.commands
    /\ raw_script' = done.after.raw_script
    /\ built' = done.result
    /\ built_before' = built
    /\ last_op' = [op |-> "build", before |-> CmdState]
    /\ UNCHANGED <<parserVars, apiVars>>

\* build()
BuildCall == /\ Finished(Build(CmdState))

BuilderNext ==
    \/ TellCall \/ AddCommandCall \/ SetCall \/ GetCall \/ MakeNewCall
    \/ DeleteCall \/ MoveCall \/ ReturnValueCall \/ RawCall
    \/ WithPropertiesCall \/ BuildCall

SpecBuilder == Init /\ [][BuilderNext]_vars

-----------------------------------------------------------------------------
(* Calls on the Things 3 command generators.  A call makes a new command   *)
(* object, so it is taken from the state after construction; last_op       *)
(* keeps the generator, the reference it wrote to, and the data.           *)

MaxFields == 3

TodoIds    == {"T1"}
ProjectIds == {"P1"}

TodoKeys ==
    {"name", "notes", "status", "due_date", "tags", "project", "area", "when",
     "checklist"}
ProjectKeys == {"name", "notes", "status", "deadline", "tags", "area", "when"}

FieldValuesOf(key) ==
    CASE key = "name"      -> {PyStr("Buy milk")}
      [] key = "notes"     -> {PyStr("2 l")}
      [] key = "status"    -> {PyStr("completed"), PyStr("canceled"), PyStr("open")}
      [] key = "due_date"  -> {PyNone, PyDate(0), PyDate(3)}
      [] key = "deadline"  -> {PyNone, PyDate(3)}
      [] key = "tags"      ->
            {PyNone, PyList(<<>>), PyList(<<PyStr("Home"), PyStr("Errand")>>)}
      [] key = "project"   ->
            {PyNone, PyStr("Work"), PyStr("project id \"P1\""),
             PyStr("project plan")}
      [] key = "area"      ->
            {PyNone, PyStr("Family"), PyStr("area id \"A1\""),
             PyStr("area 51")}
      [] key = "when"      ->
            {PyNone, PyStr("today"), PyStr("tomorrow"), PyStr("Someday"),
             PyStr("next week")}
      [] key = "checklist" ->
            {PyList(<<PyDict(<<"name">>, <<PyStr("eggs")>>), PyStr("tea")>>)}

RECURSIVE MapsOver(_)
\* the field maps whose keys are exactly those of keys
MapsOver(keys) ==
    IF keys = {} THEN {<<>>}
    ELSE LET key == CHOOSE k \in keys : TRUE
         IN  {(key :> v) @@ rest :
                 v \in FieldValuesOf(key), rest \in MapsOver(keys \ {key})}

FieldMaps(keys) ==
    UNION {MapsOver(present) :
             present \in {ks \in SUBSET keys : Cardinality(ks) <= MaxFields}}

\* the command object a generator returned, or the exception it raised
Generated(op, ref, data, raises, cmd) ==
    /\ last_op' = [op |-> op, ref |-> ref, data |-> data, raised |-> raises]
    /\ IF raises
       THEN UNCHANGED <<tell_app, commands, raw_script>>
       ELSE /\ tell_app' = cmd.tell_app
            /\ commands' = cmd.commands
            /\ raw_script' = cmd.raw_script
    /\ UNCHANGED <<built, built_before, parserVars, apiVars>>

CreateTodoCall ==
    /\ last_op.op = "new"
    /\ \E data \in FieldMaps(TodoKeys) :
          Generated("create_todo", "newTodo", data, WhenRaises(data),
                    CreateTodo(data))

UpdateTodoCall ==
    /\ last_op.op = "new"
    /\ \E todo_id \in TodoIds, data \in FieldMaps(TodoKeys) :
          Generated("update_todo", TodoRef(todo_id), data, WhenRaises(data),
                    UpdateTodo(todo_id, data))

DeleteTodoCall ==
    /\ last_op.op = "new"
    /\ \E todo_id \in TodoIds :
          Generated("delete_todo", TodoRef(todo_id), <<>>, FALSE,
                    DeleteTodo(todo_id))

\* ProjectCommandBuilder.create_project(data) raises AttributeError where
\* it calls self._build_properties_record: the method is TodoCommandBuilder's
CreateProjectCall ==
    /\ last_op.op = "new"
    /\ \E data \in FieldMaps(ProjectKeys) :
          Generated("create_project", "newProject", data, TRUE, NewCommand)

UpdateProjectCall ==
    /\ last_op.op = "new"
    /\ \E project_id \in ProjectIds, data \in FieldMaps(ProjectKeys) :
          Generated("update_project", ProjectRef(project_id), data,
                    WhenRaises(data), UpdateProject(project_id, data))

\* AppleScriptOrchestrator._set_todo_status(todo_ref, data): commands holds
\* the list it returns
SetTodoStatusCall ==
    /\ last_op.op = "new"
    /\ \E todo_id \in TodoIds, data \in FieldMaps({"name", "status"}) :
          Generated("_set_todo_status", TodoRef(todo_id), data, FALSE,
                    AddCommands(NewCommand, SetTodoStatus(TodoRef(todo_id), data)))

\* Things3Orchestrator.execute_command builds the command it was given
BuildGenerated ==
    /\ last_op.op \notin {"new", "call", "build", "_set_todo_status"}
    /\ ~last_op.raised
    /\ built = NotBuilt
    /\ tell_app' = Build(CmdState).after.tell_app
    /\ commands' = Build(CmdState).after.commands
    /\ raw_script' = Build(CmdState).after.raw_script
    /\ built' = Build(CmdState).result
    /\ UNCHANGED <<built_before, last_op, parserVars, apiVars>>

GeneratorNext ==
    \/ CreateTodoCall \/ UpdateTodoCall \/ DeleteTodoCall
    \/ CreateProjectCall \/ UpdateProjectCall \/ SetTodoStatusCall
    \/ BuildGenerated

SpecGenerator == Init /\ [][GeneratorNext]_vars

-----------------------------------------------------------------------------
(* Calls on Things3API.  engine keeps what osascript did with the script   *)
(* (run) and what execute_command returned or raised (ran); api_result is  *)
(* what the API call returned or raised.                                   *)

LookupTypes == {"to do", "project", "area", "tag"}
LookupIds   == {"T1", "Can't get to do id"}

NotFoundStderr(type) ==
    "execution error: Things3 got an error: Can't get " \o type
      \o " id \"T1\". (-1728)"

CreationDateField == "creation date:date \"Friday, June 20, 2025 at 20:24:26\""

Stdouts ==
    { "", "missing value", "{}", "{id:\"T1\", name:\"Buy milk\"}",
      "{id:\"T1\", name:\"Can't get to do id\"}",
      "{id:\"T1\", name:\"Buy milk\", " \o CreationDateField \o "}",
      "{name:\"Buy milk\", " \o CreationDateField \o "}",
      "{{id:\"T1\", name:\"Buy milk\", " \o CreationDateField
         \o ", tag names:\"Home, Errand\"}}",
      "{{id:\"T1\", name:\"Buy milk\", " \o CreationDateField
         \o ", tag names:\"\"}}" }

Stderrs ==
    {NotFoundStderr(type) : type \in LookupTypes}
      \cup { "", "execution error: Things3 got an error: Application isn't running. (-600)",
             "execution error: Things3 got an error: Can't get list \"Nope\". (-1728)" }

Runs ==
    {[kind |-> "output", stdout |-> text] : text \in Stdouts}
      \cup {[kind |-> "failed", stderr |-> text, returncode |-> 1] :
              text \in Stderrs}
      \cup {[kind |-> "timeout"]}

\* get_todo(id), get_project(id), get_area(id), get_tag(id)
GetByIdCall ==
    \E type \in LookupTypes, id \in LookupIds, run \in Runs :
        /\ api_call = NoCall
        /\ api_call' = [op |-> "get", type |-> type, id |-> id]
        /\ engine' = Execution(CommandScript(LookupCommand(type, id)), run)
        /\ processes' = <<Execution(CommandScript(LookupCommand(type, id)), run)>>
        /\ api_result' = GetById(type, id, run)
        /\ UNCHANGED <<parserVars, builderVars, serverVars>>

MaxApiFields == 1    \* optional fields set on a TodoCreate, TodoUpdate, ProjectUpdate

ListNames == {"Today", "To move later"}

ListCalls ==
    {[op |-> "get_all", type |-> type] : type \in LookupTypes}
      \cup {[op |-> "get_todos_by_project", type |-> "to do", id |-> "P1"],
            [op |-> "get_todos_by_area", type |-> "to do", id |-> "A1"]}

\* the query of the operation
ListCommand(call) ==
    CASE call.op = "get_all" -> "get properties of " \o call.type \o "s"
      [] call.op = "get_todos_by_project" ->
            "get properties of to dos of project id \"" \o call.id \o "\""
      [] call.op = "get_todos_by_area" ->
            "get properties of to dos of area id \"" \o call.id \o "\""

\* what osascript prints for the write, and for the lookup after it
WriteRuns ==
    {[kind |-> "output", stdout |-> text] : text \in {"T1", "P1", "", "\"T1\""}}
      \cup {[kind |-> "failed", returncode |-> 1,
             stderr |-> "execution error: Things3 got an error: Application isn't running. (-600)"],
            [kind |-> "timeout"]}

FetchRuns(type) ==
    {[kind |-> "output", stdout |-> text] :
        text \in {"", "{id:\"T1\", name:\"Buy milk\", " \o CreationDateField \o "}"}}
      \cup {[kind |-> "failed", returncode |-> 1, stderr |-> NotFoundStderr(type)],
            [kind |-> "timeout"]}

\* the fields model_dump leaves of a TodoCreate (name is required, None is
\* excluded) and of a TodoUpdate or ProjectUpdate (a None that was set stays)
ApiMaps(keys) ==
    UNION {MapsOver(present) :
             present \in {ks \in SUBSET keys : Cardinality(ks) <= MaxApiFields}}

CreateMaps ==
    {("name" :> PyStr("Buy milk")) @@ rest :
        rest \in {m \in ApiMaps(TodoKeys \ {"name"}) :
                    \A k \in DOMAIN m : m[k] # PyNone}}

\* the call is over: what it spawned and what it gave
ApiDone(call, done) ==
    /\ api_call = NoCall
    /\ api_call' = call
    /\ processes' = done.processes
    /\ engine' = IF done.processes = <<>> THEN EngineIdle
                 ELSE done.processes[Len(done.processes)]
    /\ api_result' = done.result
    /\ UNCHANGED <<parserVars, builderVars, serverVars>>

\* get_all_todos, get_all_projects, get_all_areas, get_all_tags,
\* get_todos_by_project(id), get_todos_by_area(id)
ApiList ==
    \E call \in ListCalls, run \in Runs :
        /\ ApiDone(call, ListByCommand(call.type, ListCommand(call), run))

\* get_todos_by_list(list_name)
ApiGetTodosByList ==
    \E list_name \in ListNames, run \in Runs :
        /\ ApiDone([op |-> "get_todos_by_list", type |-> "to do", list_name |-> list_name],
                   GetTodosByList(list_name, run))

\* create_todo(todo_data)
ApiCreateTodo ==
    \E data \in CreateMaps, run \in WriteRuns, fetch_run \in FetchRuns("to do") :
        /\ ApiDone([op |-> "create_todo", type |-> "to do", data |-> data],
                   CreateTodoApi(data, run, fetch_run))

\* update_todo(todo_id, update_data)
ApiUpdateTodo ==
    \E todo_id \in TodoIds, data \in ApiMaps(TodoKeys),
       run \in WriteRuns, fetch_run \in FetchRuns("to do") :
        /\ ApiDone([op |-> "update_todo", type |-> "to do", id |-> todo_id, data |-> data],
                   UpdateApi("todo", "to do", todo_id, data,
                             UpdateTodo(todo_id, data), run, fetch_run))

\* create_project(project_data)
ApiCreateProject ==
    \E data \in {m \in ApiMaps({"name", "notes"}) : "name" \in DOMAIN m} :
        /\ ApiDone([op |-> "create_project", type |-> "project", data |-> data],
                   CreateProjectApi)

\* update_project(project_id, update_data)
ApiUpdateProject ==
    \E project_id \in ProjectIds, data \in ApiMaps(ProjectKeys),
       run \in WriteRuns, fetch_run \in FetchRuns("project") :
        /\ ApiDone([op |-> "update_project", type |-> "project", id |-> project_id,
                    data |-> data],
                   UpdateApi("project", "project", project_id, data,
                             UpdateProject(project_id, data), run, fetch_run))

\* calls of AppleScriptEngine.execute: what osascript may do holds the
\* output it had written when it failed or was killed
EngineScripts  == {"return 42", "tell application \"Things3\" to get name of to dos"}
EngineTimeouts == {PyNone, PyInt(5), PyInt(0)}
Configured     == {DefaultTimeout, "10"}
EngineRuns ==
    {[kind |-> "output", stdout |-> "  42\n"], [kind |-> "output", stdout |-> ""],
     [kind |-> "failed", stdout |-> "4", stderr |-> "Script error", returncode |-> 1],
     [kind |-> "timeout", stdout |-> "4"]}

EngineCall(call, run) ==
    ApiDone(call,
            ApiOutcome(<<[script |-> call.script, flags |-> call.flags, run |-> run,
                          ran |-> Execute(call.script, call.timeout, call.configured, run)]>>,
                       Execute(call.script, call.timeout, call.configured, run)))

\* AppleScriptEngine(timeout=configured).execute(script, flags, timeout)
EngineExecuteCall ==
    \E script \in EngineScripts, flags \in {<<>>, <<"-s", "s">>},
       timeout \in EngineTimeouts, configured \in Configured, run \in EngineRuns :
        /\ EngineCall([op |-> "execute", script |-> script, flags |-> flags,
                       timeout |-> timeout, configured |-> configured], run)

ApiNext ==
    \/ GetByIdCall
    \/ EngineExecuteCall
    \/ ApiList
    \/ ApiGetTodosByList
    \/ ApiCreateTodo
    \/ ApiUpdateTodo
    \/ ApiCreateProject
    \/ ApiUpdateProject

SpecApi == Init /\ [][ApiNext]_vars

-----------------------------------------------------------------------------
(* The MCP server (things3/mcp_server.py).  Every tool is an async def     *)
(* that calls the module's one Things3API and has no await in it, so the   *)
(* event loop runs a handler from its first statement to its return before *)
(* it takes up another request; subprocess.run blocks the loop's thread    *)
(* while osascript runs.  A task is "pending" once the request arrived,    *)
(* "running" while its handler executes, "blocked" while the handler waits *)
(* in subprocess.run for an osascript process, and "done" after it; left   *)
(* is the number of processes the handler has yet to spawn.                *)

ServerOps == {"get_todo", "create_todo"}

\* what the API operation of the tool does, over what osascript may print
HandlerOutcomes(op) ==
    IF op = "get_todo"
    THEN {ApiOutcome(<<Execution(CommandScript(LookupCommand("to do", "T1")), run)>>,
                     GetById("to do", "T1", run)) : run \in FetchRuns("to do")}
    ELSE {CreateTodoApi("name" :> PyStr("Buy milk"), run, fetch_run) :
             run \in WriteRuns, fetch_run \in FetchRuns("to do")}

\* per tool: how many processes a call spawns and how it ends
HandlerPlans ==
    UNION {{[op |-> op, left |-> Len(done.processes), result |-> done.result.kind] :
               done \in HandlerOutcomes(op)} : op \in ServerOps}

\* the event loop takes up a coroutine only when none is executing
LoopFreeAlways(current) == TRUE

LoopFree(current) == current = 0

\* a tool request arrives
Arrive ==
    \E r \in Requests, op \in ServerOps :
        /\ tasks[r].state = "none"
        /\ tasks' = [tasks EXCEPT ![r] = [NoTask EXCEPT !.state = "pending", !.op = op]]
        /\ UNCHANGED <<running, parserVars, builderVars, facadeVars>>

\* the event loop starts the handler of a request
HandlerStart ==
    \E r \in Requests, plan \in HandlerPlans :
        /\ tasks[r].state = "pending"
        /\ plan.op = tasks[r].op
        /\ LoopFree(running)
        /\ tasks' = [tasks EXCEPT ![r] = [state |-> "running", op |-> plan.op,
                                           left |-> plan.left, result |-> plan.result]]
        /\ running' = r
        /\ UNCHANGED <<parserVars, builderVars, facadeVars>>

\* the handler reaches subprocess.run: osascript starts, the thread blocks
Spawn ==
    \E r \in Requests :
        /\ tasks[r].state = "running"
        /\ tasks[r].left > 0
        /\ tasks' = [tasks EXCEPT ![r].state = "blocked"]
        /\ UNCHANGED <<running, parserVars, builderVars, facadeVars>>

\* osascript exits or is killed at the timeout: subprocess.run is over
ProcessExit ==
    \E r \in Requests :
        /\ tasks[r].state = "blocked"
        /\ tasks' = [tasks EXCEPT ![r].state = "running", ![r].left = @ - 1]
        /\ UNCHANGED <<running, parserVars, builderVars, facadeVars>>

\* the handler returns or raises: the coroutine is over
HandlerReturn ==
    \E r \in Requests :
        /\ tasks[r].state = "running"
        /\ tasks[r].left = 0
        /\ tasks' = [tasks EXCEPT ![r].state = "done"]
        /\ running' = 0
        /\ UNCHANGED <<parserVars, builderVars, facadeVars>>

ServerNext ==
    \/ Arrive
    \/ HandlerStart
    \/ Spawn
    \/ ProcessExit
    \/ HandlerReturn

SpecServer == Init /\ [][ServerNext]_vars

-----------------------------------------------------------------------------
(* The whole program: the calls of all its parts.                          *)

Next == ParserNext \/ BuilderNext \/ GeneratorNext \/ ApiNext \/ ServerNext

Spec == Init /\ [][Next]_vars

-----------------------------------------------------------------------------
(* Properties of the parsers and of the converter.                         *)

ParsedValue == outcome.result.value

\* C1: StructuredRecordParser.parse of a record list {{r1}, ..., {rn}}
\* returns a list of exactly n records, the i-th one being the record parsed
\* from ri alone, in the order of the text.
C1_RecordListInOrder ==
    (parse_input.kind = "record_list" /\ chain \in RecordParsers) =>
        /\ outcome.result.kind = "value"
        /\ IsList(ParsedValue)
        /\ Len(ParsedValue.items) = Len(parse_input.records)
        /\ \A i \in 1..Len(parse_input.records) :
              ParsedValue.items[i] =
                  ParseSingleRecord(chain = "Things3RecordParser",
                                    RenderRecord(parse_input.records[i]))

\* The same text with the commas and colons inside quoted values replaced by
\* characters that mean nothing to the parser, and the way back.
Neutral(s) == ReplaceAll(ReplaceAll(s, ",", ";"), ":", "|")
Restore(s) == ReplaceAll(ReplaceAll(s, ";", ","), "|", ":")

NeutralValue(v) == IF v.form = "quoted" THEN [v EXCEPT !.s = Neutral(v.s)] ELSE v

NeutralRecord(rec) == [i \in 1..Len(rec) |-> NeutralValue(rec[i])]

NeutralInput(inp) ==
    [inp EXCEPT !.records =
        [i \in 1..Len(inp.records) |-> NeutralRecord(inp.records[i])]]

RECURSIVE RestoreValue(_)
RestoreValue(v) ==
    CASE v.t = "str"  -> PyStr(Restore(v.s))
      [] v.t = "list" ->
            PyList([i \in 1..Len(v.items) |-> RestoreValue(v.items[i])])
      [] v.t = "dict" ->
            PyDict([i \in 1..Len(v.keys) |-> Restore(v.keys[i])],
                   [i \in 1..Len(v.vals) |-> RestoreValue(v.vals[i])])
      [] OTHER -> v

\* C2: in StructuredRecordParser a comma or a colon inside a double-quoted
\* value never acts as a pair delimiter or as the key/value separator. A
\* single record yields exactly its keys, and each quoted value as written;
\* for a single record and for a record list the result is the result for
\* the text without those commas and colons, with them put back.
C2_QuotedDelimitersInert ==
    (parse_input.kind \in {"record", "record_list"} /\ chain \in RecordParsers) =>
        /\ outcome.result.kind = "value"
        /\ ParsedValue =
              RestoreValue(RunParser(chain,
                                     Render(NeutralInput(parse_input))).value)
        /\ parse_input.kind = "record" =>
              /\ IsDict(ParsedValue)
              /\ ParsedValue.keys =
                    SubSeq(RecordKeys, 1, Len(parse_input.records[1]))
              /\ \A i \in 1..Len(parse_input.records[1]) :
                    parse_input.records[1][i].form = "quoted" =>
                        ParsedValue.vals[i] =
                            PyStr(parse_input.records[1][i].s)

\* C2 witness: the record {name:"a, b: c", id:"x"} parsed to its two fields
C2_Witness ==
    /\ chain = "StructuredRecordParser"
    /\ raw_output = "{name:\"a, b: c\", id:\"x\"}"
    /\ ParsedValue = PyDict(<<"name", "id">>, <<PyStr("a, b: c"), PyStr("x")>>)

\* C3: through ParserChain.parse, on the default chain and on the Things3
\* chain, a single-brace text without a colon returns the plain list of its
\* items, never a record and never an error; {a:1} returns one record and
\* {{a:1},{a:2}} a two-element list.
C3_PlainListThroughChain ==
    chain \in Chains =>
        /\ parse_input.kind = "list" =>
              /\ outcome.result.kind = "value"
              /\ IsList(ParsedValue)
              /\ Len(ParsedValue.items) = Len(parse_input.items)
        /\ raw_output = "{a,b,c}" =>
              /\ outcome.result.kind = "value"
              /\ ParsedValue = PyList(<<PyStr("a"), PyStr("b"), PyStr("c")>>)
        /\ raw_output = "{a:1}" =>
              /\ outcome.result.kind = "value"
              /\ ParsedValue = PyDict(<<"a">>, <<PyInt(1)>>)
        /\ raw_output = "{{a:1},{a:2}}" =>
              /\ outcome.result.kind = "value"
              /\ IsList(ParsedValue)
              /\ Len(ParsedValue.items) = 2

\* the place in the chain of the first parser whose can_parse is true
FirstApplicable(parsers, raw) ==
    CHOOSE i \in 1..Len(parsers) :
        /\ CanParse(parsers[i], raw)
        /\ \A j \in 1..(i - 1) : ~CanParse(parsers[j], raw)

\* C4: in ParserChain.parse the first parser whose can_parse is true is the
\* only one whose parse runs, and no later parser is consulted; when that
\* parse fails the call raises AppleScriptParsingError with the raw text, the
\* failing parser and the underlying error.
C4_FirstApplicableParserOnly ==
    (chain \in Chains /\ raw_output # "") =>
        LET parsers == ParsersOf(chain)
            first   == FirstApplicable(parsers, raw_output)
        IN  /\ outcome.ran = <<parsers[first]>>
            /\ outcome.consulted = SubSeq(parsers, 1, first)
            /\ outcome.result = RunParser(parsers[first], raw_output)
            /\ outcome.result.kind \in {"value", "AppleScriptParsingError"}
            /\ outcome.result.kind = "AppleScriptParsingError" =>
                  /\ outcome.result.raw_output = raw_output
                  /\ outcome.result.parser_type = parsers[first]
                  /\ outcome.result.original_error = "JSONDecodeError"

\* C4 witness: the JSON parser took {a,b,c}, failed, and the call raised
C4_Witness ==
    /\ chain = "default"
    /\ raw_output = "{a,b,c}"
    /\ outcome.consulted = <<"JSONParser">>
    /\ outcome.ran = <<"JSONParser">>
    /\ outcome.result.kind = "AppleScriptParsingError"

\* C5: convert(None) is the token "missing value", and parsing that token
\* back, as the whole output through the parser chain and as the value of a
\* record field, gives None.
C5_MissingValueRoundTrip ==
    py_value = PyNone =>
        /\ raw_output \in {"missing value", "{value:missing value}"}
        /\ parse_input.kind = "converted_output" =>
              /\ outcome.result.kind = "value"
              /\ ParsedValue = PyNone
        /\ parse_input.kind = "converted_field" =>
              /\ outcome.result.kind = "value"
              /\ ParsedValue = PyDict(<<"value">>, <<PyNone>>)

\* the canonical token of a reference
CanonicalToken(v) ==
    IF v.form = "ref_id" THEN PyStr(v.type \o " id " \o v.s)
    ELSE PyStr(v.type \o " " \o v.s)

\* C9: a record field whose raw value is <type> id "<id>" of application
\* "Things3" (project, area, to do) or <type> "<name>" of application
\* "Things3" (tag, list) parses to the token <type> id <id>, resp.
\* <type> <name>.
C9_ReferenceCanonicalization ==
    (parse_input.kind = "record"
       /\ chain \in {"things3", "Things3RecordParser"}) =>
        /\ outcome.result.kind = "value"
        /\ \A i \in 1..Len(parse_input.records[1]) :
              parse_input.records[1][i].form \in {"ref_id", "ref_name"} =>
                  ParsedValue.vals[i] =
                      CanonicalToken(parse_input.records[1][i])

-----------------------------------------------------------------------------
(* Properties of the command builder.                                      *)

\* C6: build is idempotent and read-only.  After a build() the statement
\* list, the scope and the raw override are what they were before it; a
\* build() that follows a build() returns what that one returned; and a
\* build() on a command with no statement and no raw override raises,
\* whatever the scope.
C6_BuildIdempotentReadOnly ==
    last_op.op = "build" =>
        /\ CmdState = last_op.before
        /\ built_before # NotBuilt => built = built_before
        /\ (commands = <<>> /\ raw_script = PyNone) => built.kind = "raise"

\* two builds in a row of a scoped command with two statements
C6_Witness ==
    /\ last_op.op = "build"
    /\ tell_app = PyStr("Things3")
    /\ commands = <<"activate", "return id of newTodo">>
    /\ built_before.kind = "text"
    /\ built = BuiltText("tell application \"Things3\"\n    activate\n"
                           \o "    return id of newTodo\nend tell")

\* the quoted value holds a backslash escape
IsEscaped(v) == v.form = "quoted" /\ Contains(v.s, "\\")

HasEscaped(inp) ==
    \E i \in 1..Len(inp.records) :
        \E j \in 1..Len(inp.records[i]) : IsEscaped(inp.records[i][j])

\* the dicts a record parser returned, one for each record
ParsedRecords ==
    IF parse_input.kind = "record" THEN <<ParsedValue>> ELSE ParsedValue.items

\* C19: escapes are preserved in quoted values.  StructuredRecordParser,
\* and Things3RecordParser with it, returns one dict for each record of a
\* text whose quoted values hold backslash escapes, and in it each such
\* value without its two surrounding quotes and otherwise character for
\* character: an escaped quote neither ends the value nor splits the
\* record.
C19_EscapesPreserved ==
    (parse_input.kind \in {"record", "record_list"} /\ chain \in RecordParsers
       /\ HasEscaped(parse_input)) =>
        /\ outcome.result.kind = "value"
        /\ parse_input.kind = "record_list" => IsList(ParsedValue)
        /\ Len(ParsedRecords) = Len(parse_input.records)
        /\ \A i \in 1..Len(parse_input.records) :
              \A j \in 1..Len(parse_input.records[i]) :
                 IsEscaped(parse_input.records[i][j]) =>
                    /\ IsDict(ParsedRecords[i])
                    /\ HasKey(ParsedRecords[i], RecordKeys[j])
                    /\ DictGet(ParsedRecords[i], RecordKeys[j])
                          = PyStr(parse_input.records[i][j].s)

\* a text none of the record, list, JSON and date parsers takes
IsPrimitiveText(raw) ==
    /\ ~StartsWith(Strip(raw), "{")
    /\ ~StartsWith(Strip(raw), "[")
    /\ ~StartsWith(Strip(raw), "date \"")

\* what the primitive fallback is to make of the text
ClaimedPrimitive(raw, value) ==
    IF raw = "" THEN PyNone
    ELSE IF value = "" THEN PyStr(raw)
    ELSE IF Lower(value) = "true" THEN PyBool(TRUE)
    ELSE IF Lower(value) = "false" THEN PyBool(FALSE)
    ELSE IF ~Contains(value, ".") /\ IsIntLiteral(value) THEN PyInt(IntValue(value))
    ELSE IF Contains(value, ".") /\ IsFloatLiteral(value) THEN PyFloat(value)
    ELSE PyStr(value)

\* C18: primitive fallback through the parser chain, on the default and on
\* the Things3 chain.  The empty text parses to None; a non-empty text of
\* whitespace only is returned as it is; true and false in any letter case
\* parse to booleans; numeric text parses to an int, or to a float when it
\* has a decimal point; any other text is returned stripped, as a string.
C18_PrimitiveFallback ==
    (chain \in Chains /\ parse_input.kind = "text"
       /\ IsPrimitiveText(raw_output)) =>
        /\ outcome.result.kind = "value"
        /\ ParsedValue = ClaimedPrimitive(raw_output, Strip(raw_output))

\* C18 witness: a text of a blank, a newline and a tab went down the
\* default chain to the primitive parser and came back as it was
C18_Witness ==
    /\ chain = "default"
    /\ raw_output = " \n\t"
    /\ outcome.ran = <<"PrimitiveParser">>
    /\ ParsedValue = PyStr(" \n\t")

\* the expression for a date k days from today
ClaimedDateExpression(k) ==
    IF k = 0 THEN "current date"
    ELSE IF k > 0 THEN "(current date) + (" \o IntStr(k) \o " * days)"
    ELSE "(current date) - (" \o IntStr(0 - k) \o " * days)"

\* C14: date conversion relative to today.  For a date k days from today
\* both _format_date of the converter and _format_date_for_applescript of
\* the legacy orchestrator give "current date" for k = 0,
\* "(current date) + (N * days)" for k > 0 and "(current date) - (N * days)"
\* for k < 0, N being the absolute value of k.
C14_DateConversion ==
    (parse_input.kind \in {"converted", "legacy_date"} /\ py_value.t = "date") =>
        raw_output = ClaimedDateExpression(py_value.days)

\* C20: raw override precedence.  Once raw(script) was called on the
\* command, build() returns that script and nothing else, whatever
\* statements and scope the command has, and it does not raise when the
\* command has no statement.
C20_RawOverridePrecedence ==
    (last_op.op = "build" /\ raw_script # PyNone) =>
        built = BuiltText(raw_script.s)

\* C20 witness: raw() on a command with no statement and no scope, built
C20_Witness ==
    /\ last_op.op = "build"
    /\ raw_script # PyNone
    /\ commands = <<>>
    /\ tell_app = PyNone
    /\ built = BuiltText(raw_script.s)

\* the statements joined with a newline and the indent
IndentedBody(statements) == JoinWith("\n    ", statements)

\* C21: build() of a command without raw override and with at least one
\* statement gives every statement once, in the order of the calls, joined
\* with a newline and the indent; with a scope set that body stands between
\* tell application "<app>" and end tell, with no scope set the same body
\* is returned as it is.
C21_BuildJoinsInOrder ==
    (last_op.op = "build" /\ raw_script = PyNone /\ Len(commands) >= 1) =>
        built = BuiltText(IF tell_app # PyNone
                          THEN "tell application \"" \o tell_app.s \o "\"\n    "
                                 \o IndentedBody(commands) \o "\nend tell"
                          ELSE IndentedBody(commands))

\* the lines of a built text
BuiltLines(text) == SplitOn(text, "\n")

\* C21, amended: build() of a command without raw override and with at
\* least one statement gives every statement once, in the order of the
\* calls, one to a line.  With a non-empty scope the lines are indented by
\* four blanks and stand between tell application "<app>" and end tell;
\* with no scope, or with the empty scope, the statements are joined with
\* a bare newline and nothing is wrapped around them.
C21_BuildJoinsInOrderAmended ==
    (last_op.op = "build" /\ raw_script = PyNone /\ Len(commands) >= 1) =>
        /\ built.kind = "text"
        /\ IF Truthy(tell_app)
           THEN BuiltLines(built.text) =
                    <<"tell application \"" \o tell_app.s \o "\"">>
                      \o [i \in 1..Len(commands) |-> "    " \o commands[i]]
                      \o <<"end tell">>
           ELSE BuiltLines(built.text) = commands

\* C21 witness: two statements and no scope, built
C21_Witness ==
    /\ last_op.op = "build"
    /\ raw_script = PyNone
    /\ tell_app = PyNone
    /\ Len(commands) = 2
    /\ built.kind = "text"

\* the strings the claimed rule leaves as they are
ClaimedExpression(s0) ==
    LET s == Strip(s0)
    IN  \/ s \in {"current date", "(current date)"}
        \/ /\ StartsWith(s, "(current date)")
           /\ Contains(s, "+") \/ Contains(s, "-")
           /\ Contains(s, "days")
        \/ \E prefix \in {"area id ", "project id ", "tag id ", "to do id ",
                          "area ", "project ", "tag ", "list "} :
              StartsWith(s, prefix)

\* C25: conversion of a string.  convert(s) is s as it is exactly when s,
\* trimmed, is a current-date keyword, matches the current-date arithmetic
\* pattern or begins with one of the eight reference prefixes; every other
\* string (a word such as true too) comes back in double quotes with each
\* double quote inside it escaped.
C25_StringConversion ==
    (parse_input = [kind |-> "converted"] /\ py_value.t = "str") =>
        IF ClaimedExpression(py_value.s)
        THEN raw_output = py_value.s
        ELSE raw_output = "\"" \o ReplaceAll(py_value.s, "\"", "\\\"") \o "\""

RECURSIVE ClosingQuote(_, _, _)
\* the position of the first quote at or after i that no backslash
\* escapes, or 0: the scan of a quoted value with escape tracking
ClosingQuote(text, i, escaped) ==
    IF i > Len(text) THEN 0
    ELSE IF escaped THEN ClosingQuote(text, i + 1, FALSE)
    ELSE IF Ch(text, i) = "\\" THEN ClosingQuote(text, i + 1, TRUE)
    ELSE IF Ch(text, i) = "\"" THEN i
    ELSE ClosingQuote(text, i + 1, FALSE)

\* C28: a string that is not an expression converts to one well-formed
\* literal in double quotes, whatever quotes and backslashes it holds:
\* the text starts with a quote and, scanned with quote and backslash
\* tracking, its first closing quote is its last character.
C28_QuotedLiteralWellFormed ==
    (/\ parse_input = [kind |-> "converted"]
     /\ py_value.t = "str"
     /\ ~IsAppleScriptExpression(py_value.s)) =>
        /\ StartsWith(raw_output, "\"")
        /\ ClosingQuote(raw_output, 2, FALSE) = Len(raw_output)

\* C27: a record of a record list parses as it does on its own.  For a
\* record list text StructuredRecordParser.parse returns a list with one
\* record for each record of the text, and the i-th is the record that
\* parsing the text {ri} of the i-th record alone returns: the same keys
\* and the same values, the last field and the last record included.
C27_ListRecordAsSingleRecord ==
    (parse_input.kind = "record_list" /\ chain = "StructuredRecordParser") =>
        /\ outcome.result.kind = "value"
        /\ IsList(ParsedValue)
        /\ Len(ParsedValue.items) = Len(parse_input.records)
        /\ \A i \in 1..Len(parse_input.records) :
              ParsedValue.items[i]
                = RecordParse(FALSE, RenderRecord(parse_input.records[i]))

\* C30: a list of tag names through the Things3 chain.  A single-brace
\* list of quoted strings, as "get name of every tag" prints it, parses to
\* the list of the names in order, also when a name holds a colon: it is
\* not taken for a record, no name is dropped, and list_tags does not
\* return the empty list for it.
C30_TagListWithColon ==
    (chain = "things3" /\ parse_input.kind = "tag_list") =>
        /\ outcome.result.kind = "value"
        /\ ParsedValue =
              PyList([i \in 1..Len(parse_input.items) |->
                         PyStr(parse_input.items[i])])
        /\ ListTags(ParsedValue).items # <<>>

\* what get_all_todos returns on the host output of the call
AsGetAllTodos == ListAfter("to do", ExecuteScript("get properties of to dos",
                                                  engine.run))

\* C29: get_todos_by_list on records with tag names.  Whenever the host
\* output is a list of records get_all_todos makes typed to dos of,
\* get_todos_by_list returns one typed to do for each record too, nothing
\* raises between the normalization of the tag names and the construction,
\* and the tags of each to do are the trimmed, non-empty tag names in the
\* order of the host, the same as get_all_todos gives.
C29_TodosByListTags ==
    (/\ api_call.op = "get_todos_by_list"
     /\ engine.ran.kind = "value"
     /\ IsList(engine.ran.value)
     /\ AsGetAllTodos.kind = "return") =>
        /\ api_result.kind = "return"
        /\ Len(api_result.value.items) = Len(engine.ran.value.items)
        /\ \A i \in 1..Len(engine.ran.value.items) :
              api_result.value.items[i].tags = AsGetAllTodos.value.items[i].tags

-----------------------------------------------------------------------------
(* Properties of the Things 3 command generators.                          *)

TouchesDueDate(statement) ==
    \/ StartsWith(statement, "set due date of ")
    \/ StartsWith(statement, "delete due date of ")

CountOf(statements) == Cardinality(statements)

\* C7: the tri-state of due_date in create_todo and update_todo.  With the
\* key absent no statement of the script sets or deletes the due date;
\* with the key present and None there is exactly one statement
\* "delete due date of <ref>"; with the key present and a date there is
\* exactly one statement "set due date of <ref> to ...", and its expression
\* is the date arithmetic for that date.
C7_DueDateTriState ==
    (last_op.op \in {"create_todo", "update_todo"} /\ ~last_op.raised) =>
        LET data   == last_op.data
            sets   == {i \in 1..Len(commands) :
                         StartsWith(commands[i],
                                    "set due date of " \o last_op.ref \o " to ")}
            clears == {i \in 1..Len(commands) :
                         commands[i] = "delete due date of " \o last_op.ref}
        IN  IF "due_date" \notin DOMAIN data
            THEN \A i \in 1..Len(commands) : ~TouchesDueDate(commands[i])
            ELSE IF data["due_date"] = PyNone
            THEN CountOf(clears) = 1
            ELSE /\ CountOf(sets) = 1
                 /\ \A i \in sets :
                       commands[i] = "set due date of " \o last_op.ref \o " to "
                                       \o FormatDate(data["due_date"].days)

\* the field keys whose presence accounts for a statement of an update
WrittenBy(statement) ==
    IF StartsWith(statement, "set name of ") THEN {"name"}
    ELSE IF StartsWith(statement, "set notes of ") THEN {"notes"}
    ELSE IF \/ StartsWith(statement, "set completion date of ")
            \/ StartsWith(statement, "set cancellation date of ") THEN {"status"}
    ELSE IF TouchesDueDate(statement) THEN {"due_date"}
    ELSE IF \/ StartsWith(statement, "set deadline of ")
            \/ StartsWith(statement, "delete deadline of ") THEN {"deadline"}
    ELSE IF StartsWith(statement, "set tag names of ") THEN {"tags"}
    ELSE IF StartsWith(statement, "set area of ") THEN {"area"}
    ELSE IF StartsWith(statement, "move ") THEN {"project", "when"}
    ELSE {}

\* C8: update leaves unprovided fields alone.  The script of update_todo
\* and update_project ends with the return, and every statement before it
\* writes a property whose field key is present in the data.
C8_UpdateLeavesUnprovidedAlone ==
    (last_op.op \in {"update_todo", "update_project"} /\ ~last_op.raised) =>
        /\ Len(commands) >= 1
        /\ StartsWith(commands[Len(commands)], "return ")
        /\ \A i \in 1..(Len(commands) - 1) :
              WrittenBy(commands[i]) \cap DOMAIN last_op.data # {}

\* the post-creation statements in the order dates, tags, scheduling,
\* project, area, checklist
ClaimedOrder(data) ==
    DateCommands("due_date", "due date", "newTodo", data)
      \o TagsCommands("newTodo", data)
      \o (IF "when" \in DOMAIN data
          THEN SchedulingCommands("newTodo", Lower(data["when"].s)) ELSE <<>>)
      \o ProjectCommands("newTodo", data)
      \o AreaCommands("newTodo", data)
      \o (IF "checklist" \in DOMAIN data
          THEN ChecklistCommands("newTodo", data["checklist"]) ELSE <<>>)

\* C13: statement order of a create-todo script.  The make new to do
\* statement is first, the return of the id of newTodo is last, and the
\* statements between them are those of the fields present, in the order
\* due date, tags, scheduling (when), project, area, checklist.
C13_CreateTodoStatementOrder ==
    (last_op.op = "create_todo" /\ ~last_op.raised) =>
        /\ Len(commands) >= 2
        /\ StartsWith(commands[1], "set newTodo to make new to do with properties ")
        /\ commands[Len(commands)] = "return id of newTodo"
        /\ SubSeq(commands, 2, Len(commands) - 1) = ClaimedOrder(last_op.data)

\* the statements of an update in the order name, notes, status, dates,
\* tags, scheduling (when), project, area, and no checklist statement
ClaimedUpdateOrder(op, ref, data) ==
    (IF "name" \in DOMAIN data
     THEN <<SetStatement("name", ref, data["name"])>> ELSE <<>>)
      \o (IF "notes" \in DOMAIN data
          THEN <<SetStatement("notes", ref, data["notes"])>> ELSE <<>>)
      \o (IF "status" \in DOMAIN data
          THEN StatusChangeCommands(ref, data["status"]) ELSE <<>>)
      \o (IF op = "update_todo"
          THEN DateCommands("due_date", "due date", ref, data)
          ELSE DateCommands("deadline", "deadline", ref, data))
      \o TagsCommands(ref, data)
      \o (IF "when" \in DOMAIN data
          THEN IF op = "update_todo"
               THEN SchedulingCommands(ref, Lower(data["when"].s))
               ELSE ProjectSchedulingCommands(ref, Lower(data["when"].s))
          ELSE <<>>)
      \o (IF op = "update_todo" THEN ProjectCommands(ref, data) ELSE <<>>)
      \o AreaCommands(ref, data)

\* the identifier an update was given, as its return statement quotes it
UpdatedId(ref) == SubSeq(ref, Find(ref, "\"") + 1, Len(ref))

\* C22: statement order of an update script, of a to do and of a project.
\* The statements are set name, set notes, the status statement, then the
\* property statements in the order of create (dates, tags, scheduling,
\* project, area) with no checklist statement, and the last statement
\* returns the identifier that was passed in; the return is there for
\* every field map, the empty one included.
C22_UpdateStatementOrder ==
    (last_op.op \in {"update_todo", "update_project"} /\ ~last_op.raised) =>
        /\ Len(commands) >= 1
        /\ commands[Len(commands)] = "return " \o UpdatedId(last_op.ref)
        /\ SubSeq(commands, 1, Len(commands) - 1)
             = ClaimedUpdateOrder(last_op.op, last_op.ref, last_op.data)

\* the one statement the claimed rule gives a project value
ClaimedProjectStatement(ref, project) ==
    IF project = PyNone THEN MoveStatement(ref, "list \"Inbox\"")
    ELSE IF StartsWith(project.s, "project id ")
    THEN MoveStatement(ref, project.s)
    ELSE MoveStatement(ref, "project \"" \o project.s \o "\"")

\* the one statement the claimed rule gives an area value
ClaimedAreaStatement(ref, area) ==
    IF area = PyNone THEN "set area of " \o ref \o " to missing value"
    ELSE IF StartsWith(area.s, "area id ")
    THEN "set area of " \o ref \o " to " \o area.s
    ELSE "set area of " \o ref \o " to area \"" \o area.s \o "\""

\* the statements of a script that assign a project: the moves that are
\* not moves to a scheduling list
ProjectMoves(ref, statements) ==
    SelectSeq(statements,
              LAMBDA st : /\ StartsWith(st, "move " \o ref \o " to ")
                          /\ st \notin {MoveStatement(ref, "list \"" \o l \o "\"") :
                                          l \in {"Today", "Upcoming", "Anytime",
                                                 "Someday"}})

AreaSets(ref, statements) ==
    SelectSeq(statements, LAMBDA st : StartsWith(st, "set area of " \o ref))

\* C24: project and area assignment.  A project value that starts with
\* "project id " gives one move to that reference, any other project
\* value that is not null (a name that begins with "project " too) gives
\* one move to project "<name>" with the name quoted, and null gives one
\* move to list "Inbox".  An area value that starts with "area id " gives
\* one set of the area to that reference, any other value that is not null
\* a set to area "<name>", and null a set to missing value.
C24_ProjectAreaAssignment ==
    (last_op.op \in {"create_todo", "update_todo", "update_project"}
       /\ ~last_op.raised) =>
        /\ ("project" \in DOMAIN last_op.data /\ last_op.op # "update_project")
              => ProjectMoves(last_op.ref, commands)
                   = <<ClaimedProjectStatement(last_op.ref,
                                               last_op.data["project"])>>
        /\ "area" \in DOMAIN last_op.data
              => AreaSets(last_op.ref, commands)
                   = <<ClaimedAreaStatement(last_op.ref, last_op.data["area"])>>

\* the text of the creation statement up to its record
CreationPrefix(op) ==
    IF op = "create_todo"
    THEN "set newTodo to make new to do with properties "
    ELSE "set newProject to make new project with properties "

\* the labels of the fields that must not be given at construction
LaterLabels ==
    {"due date:", "deadline:", "when:", "project:", "area:", "list:",
     "status:", "completion date:", "activation date:", "checklist:"}

\* C26: the record of the creation statement.  For every field map
\* create_todo and create_project generate a creation statement whose
\* with-properties record holds only name, notes and tag names, each only
\* if the map provides it: no date, scheduling, project or area value is
\* in the record.
C26_ConstructionRecord ==
    (last_op.op \in {"create_todo", "create_project"}
       /\ ~WhenRaises(last_op.data)) =>
        /\ ~last_op.raised
        /\ Len(commands) >= 1
        /\ StartsWith(commands[1], CreationPrefix(last_op.op))
        /\ LET record == PyFrom(commands[1], Len(CreationPrefix(last_op.op)))
           IN  /\ StartsWith(record, "{") /\ EndsWith(record, "}")
               /\ \A label \in LaterLabels : ~Contains(record, label)
               /\ Contains(record, "name:") => "name" \in DOMAIN last_op.data
               /\ Contains(record, "notes:") => "notes" \in DOMAIN last_op.data
               /\ Contains(record, "tag names:")
                     => "tags" \in DOMAIN last_op.data

\* the statements of a script that write the completion date or the
\* cancellation date
StatusStatements(statements) ==
    SelectSeq(statements,
              LAMBDA st : \/ Contains(st, "completion date of ")
                          \/ Contains(st, "cancellation date of "))

\* C23: the status statement of an update.  update_todo, update_project
\* and the older _set_todo_status write no completion or cancellation date
\* when the status is absent or open, set the completion date of the
\* target to the current date, once, when it is completed, and the
\* cancellation date, once, when it is canceled: no call writes both
\* dates and none writes missing value to either.
C23_StatusTransition ==
    (last_op.op \in {"update_todo", "update_project", "_set_todo_status"}
       /\ ~last_op.raised) =>
        StatusStatements(commands) =
            IF "status" \notin DOMAIN last_op.data THEN <<>>
            ELSE CASE last_op.data["status"] = PyStr("completed") ->
                        <<"set completion date of " \o last_op.ref
                            \o " to (current date)">>
                   [] last_op.data["status"] = PyStr("canceled") ->
                        <<"set cancellation date of " \o last_op.ref
                            \o " to (current date)">>
                   [] OTHER -> <<>>

\* C23 witness: a project completed, and one statement sets its
\* completion date to the current date
C23_Witness ==
    /\ last_op.op = "update_project"
    /\ last_op.data = ("status" :> PyStr("completed"))
    /\ commands = <<"set completion date of project id \"P1\" to (current date)",
                    "return \"P1\"">>

-----------------------------------------------------------------------------
(* Properties of the API.                                                  *)

\* C10: not-found mapping.  When executing the lookup of get_todo,
\* get_project, get_area or get_tag raises an AppleScript error, the call
\* returns None if the text of the error contains "Can't get <type> id" for
\* the type looked up, and raises that same error otherwise.
C10_NotFoundMapping ==
    (api_call.op = "get" /\ engine.ran.kind = "raise") =>
        IF Contains(ErrorText(engine.ran.error),
                    "Can't get " \o api_call.type \o " id")
        THEN api_result = ApiReturn(PyNone)
        ELSE api_result = Raised(engine.ran.error)

\* get_todo, and Things 3 answers that it can't get the to do
C10_Witness ==
    /\ api_call = [op |-> "get", type |-> "to do", id |-> "T1"]
    /\ engine.run = [kind |-> "failed", stderr |-> NotFoundStderr("to do"),
                     returncode |-> 1]
    /\ engine.ran.kind = "raise"
    /\ api_result = ApiReturn(PyNone)

\* C11: a single-entity read whose execution succeeds and whose parsed
\* record carries no identifier field returns None and raises nothing
\* (get_todo and get_project).
C11_NoIdentifierIsNotFound ==
    (/\ api_call.op = "get"
     /\ api_call.type \in {"to do", "project"}
     /\ engine.ran.kind = "value"
     /\ IsDict(engine.ran.value)
     /\ ~HasKey(engine.ran.value, "id")) =>
        api_result = ApiReturn(PyNone)

\* a process that runs a read query: a lone get statement in the tell block
IsReadQuery(script) ==
    /\ StartsWith(script, "tell application \"Things3\"\n    get ")
    /\ Len(SplitOn(script, "\n")) = 3

\* the script has a creation or an explicit return statement
HasCreationOrReturn(script) ==
    Contains(script, "make new") \/ Contains(script, "\n    return ")

\* the process runs the script a create or update operation generated
IsGeneratedWrite(i) ==
    i = 1 /\ api_call.op \in {"create_todo", "update_todo", "update_project"}

\* C12: every process that runs a read query is run with the flags -s s,
\* whatever id or list name the query holds, and every process that runs
\* a generated create or update script with a make new or a return
\* statement is run without them, the update of no field included.
C12_OutputModeDecision ==
    \A i \in 1..Len(processes) :
        /\ IsReadQuery(processes[i].script) =>
               processes[i].flags = <<"-s", "s">>
        /\ (IsGeneratedWrite(i) /\ HasCreationOrReturn(processes[i].script)) =>
               processes[i].flags = <<>>

\* C15: every public operation of the API spawns at most one osascript
\* process per call; in particular a process that failed or timed out is
\* not followed by another one.
C15_AtMostOneProcess ==
    api_call # NoCall =>
        /\ Len(processes) <= 1
        /\ \A i \in 1..Len(processes) :
              processes[i].run.kind \in {"failed", "timeout"} => i = Len(processes)

\* C17: the three outcomes of AppleScriptEngine.execute.  When osascript
\* exits with code 0 the call returns its output, stripped; when it exits
\* with another code the call raises AppleScriptExecutionError with the
\* error stream, the return code and the script; when it runs into the
\* timeout the call raises AppleScriptTimeoutError with the script and the
\* timeout of the call if one was given, else the timeout the engine was
\* configured with.  Nothing of the output is in either error.
C17_ExecuteOutcomes ==
    api_call.op = "execute" =>
        LET run == processes[1].run
        IN  /\ run.kind = "output" =>
                  api_result = [kind |-> "output", text |-> Strip(run.stdout)]
            /\ run.kind = "failed" =>
                  api_result = Raised(ExecutionError("AppleScript execution failed",
                                          run.stderr, run.returncode, api_call.script))
            /\ run.kind = "timeout" =>
                  api_result =
                      Raised(TimeoutError(IF api_call.timeout # PyNone
                                          THEN IntStr(api_call.timeout.n)
                                          ELSE api_call.configured,
                                          api_call.script))

-----------------------------------------------------------------------------
(* Properties of the server.                                               *)

Active == {r \in Requests : tasks[r].state \in {"running", "blocked"}}

InFlight == {r \in Requests : tasks[r].state = "blocked"}

\* C16: no two operations overlap.  Whatever the order the requests arrive
\* in, at most one osascript process is in flight at any time, and at most
\* one handler is between its start and its result: the handler the event
\* loop runs.
C16_NoOverlap ==
    /\ Cardinality(InFlight) <= 1
    /\ Cardinality(Active) <= 1
    /\ Active \subseteq {running}

\* the second process of a create_todo is in flight while one request is
\* done and another waits
C16_Witness ==
    \E r, q, d \in Requests :
        /\ tasks[r] = [state |-> "blocked", op |-> "create_todo", left |-> 1,
                       result |-> "return"]
        /\ tasks[q].state = "pending"
        /\ tasks[d].state = "done"

====
